---------------------------- MODULE Spec2Model ----------------------------
(***************************************************************************)
(* A model of the daphne DAP aggregator excerpt:                           *)
(*   - the configuration-store operations of daphne-server's roles module  *)
(*     (replay-protection override, internal test task creation),          *)
(*   - the replay-protection check of report processing,                   *)
(*   - the DAP wire codec of daphne::messages and daphne::messages::taskprov*)
(***************************************************************************)
EXTENDS Integers, Sequences, FiniteSets, TLC

(***************************************************************************)
(* Bounds of the model.                                                    *)
(***************************************************************************)
\* number of concurrent request handlers
NumCallers == 2
\* total number of internal_add_task requests in one behaviour
MaxCalls == 3
\* total number of reports processed in one behaviour
MaxReports == 2

None == "None"

TaskIds == {"t1", "t2"}
Callers == 1..NumCallers

VARIABLES
    \* remote KV store, one map per typed prefix
    kvLeaderBearerToken,
    kvCollectorBearerToken,
    kvTaskConfig,
    kvGlobalOverride,
    \* in-process cache entry of GlobalOverrides::SkipReplayProtection
    cacheGlobalOverride,
    \* in-flight internal_add_task requests, and what has been started/succeeded
    call,
    started,
    succeeded,
    \* report processing (replay protection)
    rp,
    replaySeen,
    finished,
    insecureFinish,
    reports,
    \* wire codec: one message at a time is encoded, altered, decoded, re-encoded
    cpc,
    cty,
    cver,
    cmsg,
    cwire,
    cres,
    cback,
    \* the message whose encoding was cut short, if the bytes on the wire are such
    ctrunc,
    \* the last call of Interval::is_valid_for and of a length-prefixing encoder
    iv,
    lp,
    \* the last call of constant_time_eq and of Query::unwrap_interval
    ct,
    uq,
    \* HpkeReceiverConfigSet prefix of the store and its cache entries
    kvHpkeReceiverConfigSet,
    cacheHpkeReceiverConfigSet,
    \* in-flight internal_add_hpke_config and internal_delete_all requests
    hp,
    da,
    \* the in-memory leader state of the test deployment
    test_leader_state

taskVars == <<kvLeaderBearerToken, kvCollectorBearerToken, kvTaskConfig, call, started, succeeded>>
replayVars == <<kvGlobalOverride, cacheGlobalOverride, rp, replaySeen, finished, insecureFinish, reports>>

codecVars == <<cpc, cty, cver, cmsg, cwire, cres, cback, ctrunc, iv, lp, ct, uq>>

adminVars == <<kvHpkeReceiverConfigSet, cacheHpkeReceiverConfigSet, hp, da, test_leader_state>>

vars == <<taskVars, replayVars, codecVars, adminVars>>


(***************************************************************************)
(* Option<T> is a sequence of at most one element.                         *)
(***************************************************************************)
NoneOpt == <<>>
Some(v) == <<v>>
IsSome(opt) == Len(opt) = 1
Unwrap(opt) == opt[1]

(***************************************************************************)
(* The configuration store (storage_proxy_connection::kv), as the spec's   *)
(* section 4.3 describes it: a remote byte store with get / put /          *)
(* put-if-absent, read through an in-process cache.  Every prefix is a map *)
(* from keys to Option<value>.                                             *)
(***************************************************************************)
\* Result<Option<T>, Error> of a read
KvErr == [tag |-> "Err", opt |-> NoneOpt]
KvOk(opt) == [tag |-> "Ok", opt |-> opt]

\* cache entries: nothing cached, a cached miss, a cached value
CacheAbsent == [state |-> "absent", opt |-> NoneOpt]
CacheFound(v) == [state |-> "found", opt |-> Some(v)]

\* get_cloned: answer from the cache when it holds the key; otherwise read the
\* remote store (which may fail), fill the cache on a hit and, when
\* cache_not_found is set, remember a miss.
get_cloned(cacheEntry, stored, remoteFails, cache_not_found) ==
    IF cacheEntry.state = "found" THEN
        [res |-> KvOk(cacheEntry.opt), cache |-> cacheEntry]
    ELSE IF cacheEntry.state = "notfound" THEN
        [res |-> KvOk(NoneOpt), cache |-> cacheEntry]
    ELSE IF remoteFails THEN
        [res |-> KvErr, cache |-> cacheEntry]
    ELSE IF IsSome(stored) THEN
        [res |-> KvOk(stored), cache |-> CacheFound(Unwrap(stored))]
    ELSE
        [res |-> KvOk(NoneOpt),
         cache |-> IF cache_not_found THEN [state |-> "notfound", opt |-> NoneOpt] ELSE cacheEntry]

\* put_if_not_exists: atomic at the store; returns Some(existing) on conflict
\* without overwriting, None when the value was written.
put_if_not_exists(map, key, value) ==
    IF IsSome(map[key])
    THEN [map |-> map, existing |-> map[key]]
    ELSE [map |-> [map EXCEPT ![key] = Some(value)], existing |-> NoneOpt]

\* put: unconditional write
put(map, key, value) == [map |-> [map EXCEPT ![key] = Some(value)], existing |-> NoneOpt]

(***************************************************************************)
(* fetch_replay_protection_override (roles/mod.rs)                         *)
(***************************************************************************)
\* Result::ok: an error becomes None, Ok(x) becomes Some(x)
ResultOk(res) == IF res.tag = "Ok" THEN Some(res.opt) ELSE NoneOpt

\* Option<Option<T>>::flatten
OptionFlatten(opt) == IF IsSome(opt) THEN Unwrap(opt) ELSE NoneOpt

\* faulty variant: a missing value is true
UnwrapOrDefaultTrue(opt) == IF IsSome(opt) THEN Unwrap(opt) ELSE TRUE

\* Option<bool>::unwrap_or_default: a missing value is false
UnwrapOrDefault(opt) == IF IsSome(opt) THEN Unwrap(opt) ELSE FALSE

\* faulty variant: a failed read disables replay protection
skip_replay_protection_on_error(res) ==
    IF res.tag = "Err" THEN TRUE ELSE UnwrapOrDefault(OptionFlatten(ResultOk(res)))

\* the value of the local skip_replay_protection, given the result of the
\* get_cloned::<GlobalConfigOverride<bool>> read
skip_replay_protection(res) == UnwrapOrDefault(OptionFlatten(ResultOk(res)))

fetch_replay_protection_override(res) ==
    IF skip_replay_protection(res) THEN "InsecureDisabled" ELSE "Enabled"

(***************************************************************************)
(* internal_add_task (roles/mod.rs, test_utils)                            *)
(***************************************************************************)
\* the VDAF part of an InternalTestAddTask command
VdafSum8 == [typ |-> "Prio3Sum", bits |-> Some("8"), length |-> NoneOpt, chunk_length |-> NoneOpt]
VdafCountWithBits == [typ |-> "Prio3Count", bits |-> Some("8"), length |-> NoneOpt, chunk_length |-> NoneOpt]

\* str::parse of a number
ParsesAsNumber(str) == str \in {"8", "16", "4"}

\* the match on (typ, bits, length, chunk_length)
VdafConfigOf(vdaf) ==
    LET b == vdaf.bits
        l == vdaf.length
        c == vdaf.chunk_length
    IN  IF vdaf.typ = "Prio3Count" /\ ~IsSome(b) /\ ~IsSome(l) /\ ~IsSome(c) THEN
            [ok |-> TRUE, vdaf |-> <<"Prio3Count">>, err |-> None]
        ELSE IF vdaf.typ = "Prio3Sum" /\ IsSome(b) /\ ~IsSome(l) /\ ~IsSome(c) THEN
            IF ParsesAsNumber(Unwrap(b))
            THEN [ok |-> TRUE, vdaf |-> <<"Prio3Sum", Unwrap(b)>>, err |-> None]
            ELSE [ok |-> FALSE, vdaf |-> <<>>, err |-> "failed to parse bits"]
        ELSE IF vdaf.typ = "Prio3SumVec" /\ IsSome(b) /\ IsSome(l) /\ IsSome(c) THEN
            IF ParsesAsNumber(Unwrap(b)) /\ ParsesAsNumber(Unwrap(l)) /\ ParsesAsNumber(Unwrap(c))
            THEN [ok |-> TRUE, vdaf |-> <<"Prio3SumVec", Unwrap(b), Unwrap(l), Unwrap(c)>>, err |-> None]
            ELSE [ok |-> FALSE, vdaf |-> <<>>, err |-> "failed to parse SumVec"]
        ELSE IF vdaf.typ = "Prio3Histogram" /\ ~IsSome(b) /\ IsSome(l) /\ IsSome(c) THEN
            IF ParsesAsNumber(Unwrap(l)) /\ ParsesAsNumber(Unwrap(c))
            THEN [ok |-> TRUE, vdaf |-> <<"Prio3Histogram", Unwrap(l), Unwrap(c)>>, err |-> None]
            ELSE [ok |-> FALSE, vdaf |-> <<>>, err |-> "failed to parse Histogram"]
        ELSE [ok |-> FALSE, vdaf |-> <<>>, err |-> "unrecognized VDAF"]

\* the steps before the first KV operation: VDAF config, verify key,
\* collector HPKE config.  "ok" or the fatal error.
ParseCommand(cmd) ==
    IF ~VdafConfigOf(cmd.vdaf).ok THEN VdafConfigOf(cmd.vdaf).err
    ELSE IF cmd.vdaf_verify_key = "not-base64" THEN "VDAF verify key is not valid URL-safe base64"
    ELSE IF cmd.vdaf_verify_key = "wrong-length" THEN "failed to decode verify key"
    ELSE IF cmd.collector_hpke_config = "not-base64" THEN "HPKE collector config is not valid URL-safe base64"
    ELSE IF cmd.collector_hpke_config = "undecodable" THEN "failed to decode hpke config"
    ELSE "ok"

\* faulty variant: a missing collector token is an error for either role
CollectorTokenStepStrict(cmd) ==
    IF IsSome(cmd.collector_authentication_token)
    THEN (IF cmd.role = "Leader" THEN "put" ELSE "unexpected collector authentication token")
    ELSE "missing collector authentication token"

\* faulty variant: a Helper's collector token is ignored
CollectorTokenStepLenient(cmd) ==
    IF cmd.role = "Leader" /\ IsSome(cmd.collector_authentication_token) THEN "put"
    ELSE IF cmd.role = "Leader" THEN "missing collector authentication token"
    ELSE "skip"

\* the match on (cmd.role, cmd.collector_authentication_token):
\* "put" (write the collector token), "skip", or the fatal error
CollectorTokenStep(cmd) ==
    IF cmd.role = "Leader" /\ IsSome(cmd.collector_authentication_token) THEN "put"
    ELSE IF cmd.role = "Leader" THEN "missing collector authentication token"
    ELSE IF ~IsSome(cmd.collector_authentication_token) THEN "skip"
    ELSE "unexpected collector authentication token"

\* faulty variant: a maximum batch size is ignored for query type 1
QueryConfigOfLenient(cmd) ==
    IF cmd.query_type = 1 THEN
        [ok |-> TRUE, query |-> <<"TimeInterval">>, err |-> None]
    ELSE IF cmd.query_type = 2 THEN
        [ok |-> TRUE, query |-> <<"FixedSize", cmd.max_batch_size>>, err |-> None]
    ELSE [ok |-> FALSE, query |-> <<>>, err |-> "unrecognized query type"]

\* the match on (cmd.query_type, cmd.max_batch_size)
QueryConfigOf(cmd) ==
    IF cmd.query_type = 1 /\ ~IsSome(cmd.max_batch_size) THEN
        [ok |-> TRUE, query |-> <<"TimeInterval">>, err |-> None]
    ELSE IF cmd.query_type = 1 THEN
        [ok |-> FALSE, query |-> <<>>, err |-> "unexpected max batch size"]
    ELSE IF cmd.query_type = 2 THEN
        [ok |-> TRUE, query |-> <<"FixedSize", cmd.max_batch_size>>, err |-> None]
    ELSE [ok |-> FALSE, query |-> <<>>, err |-> "unrecognized query type"]

\* the DapTaskConfig built from the command (the fields the command decides)
DapTaskConfigOf(cmd) ==
    [query |-> QueryConfigOf(cmd).query,
     vdaf |-> VdafConfigOf(cmd.vdaf).vdaf,
     min_batch_size |-> cmd.min_batch_size,
     not_after |-> cmd.task_expiration,
     num_agg_span_shards |-> 4]

ErrLeaderTokenExists == "token already exists for the given task and bearer role (leader)"
ErrConfigExists == "config already exists for the given task"
ErrStorage == "storage error"

MkCmd(t, role, ltok, ctok, q, vdaf, vk, hc) ==
    [task_id |-> t, role |-> role,
     leader_authentication_token |-> ltok,
     collector_authentication_token |-> ctok,
     query_type |-> q[1], max_batch_size |-> q[2],
     vdaf |-> vdaf, vdaf_verify_key |-> vk, collector_hpke_config |-> hc,
     min_batch_size |-> 1, task_expiration |-> "now+604800"]

LeaderCommand(t, ltok) ==
    MkCmd(t, "Leader", ltok, Some("I-am-the-collector"), <<2, Some(12)>>, VdafSum8, "valid", "valid")
HelperCommand(t, ltok) ==
    MkCmd(t, "Helper", ltok, NoneOpt, <<2, Some(12)>>, VdafSum8, "valid", "valid")

\* t1: every combination of role, collector token and query input, and the two
\* generate-task commands under a second leader token; t2: the generate-task
\* commands and one command rejected after its tokens are written
Commands ==
    LET QueryInputs == {<<1, NoneOpt>>, <<1, Some(12)>>, <<2, Some(12)>>, <<2, NoneOpt>>,
                        <<3, NoneOpt>>}
        VdafSumBadBits == [typ |-> "Prio3Sum", bits |-> Some("x"), length |-> NoneOpt,
                           chunk_length |-> NoneOpt]
        ParsedCommands ==
            {MkCmd("t1", role, "I-am-the-leader", ctok, q, VdafSum8, "valid", "valid") :
                role \in {"Leader", "Helper"}, ctok \in {NoneOpt, Some("I-am-the-collector")},
                q \in QueryInputs}
            \cup {LeaderCommand("t1", "another-leader"), HelperCommand("t1", "another-leader")}
            \cup {LeaderCommand("t2", "I-am-the-leader"), HelperCommand("t2", "I-am-the-leader"),
                  MkCmd("t2", "Leader", "another-leader", Some("I-am-the-collector"),
                        <<3, NoneOpt>>, VdafSum8, "valid", "valid")}
        UnparsedCommands ==
            {MkCmd("t1", "Leader", "I-am-the-leader", Some("I-am-the-collector"),
                   <<2, Some(12)>>, x[1], x[2], x[3]) :
                x \in {<<VdafSumBadBits, "valid", "valid">>, <<VdafCountWithBits, "valid", "valid">>,
                       <<VdafSum8, "not-base64", "valid">>, <<VdafSum8, "wrong-length", "valid">>,
                       <<VdafSum8, "valid", "not-base64">>, <<VdafSum8, "valid", "undecodable">>}}
    IN  ParsedCommands \cup UnparsedCommands

\* the commands sent by concurrent clients: the generate-task leader command
\* under two tokens, a helper command for a time-interval task, a command
\* rejected after its tokens are written, one rejected before any write, and
\* a leader command for a second task
ConcurrentCommands ==
    {LeaderCommand("t1", "I-am-the-leader"), LeaderCommand("t1", "another-leader"),
     MkCmd("t1", "Helper", "I-am-the-leader", NoneOpt, <<1, NoneOpt>>, VdafSum8, "valid", "valid"),
     MkCmd("t1", "Leader", "I-am-the-leader", Some("I-am-the-collector"), <<3, NoneOpt>>,
           VdafSum8, "valid", "valid"),
     MkCmd("t1", "Leader", "I-am-the-leader", Some("I-am-the-collector"), <<2, Some(12)>>,
           VdafCountWithBits, "valid", "valid"),
     LeaderCommand("t2", "I-am-the-leader")}

\* a valid command: a known VDAF with its parameters, decodable keys, a
\* collector token exactly for role Leader, and query type 1 without or query
\* type 2 with or without a maximum batch size
ValidCommand(cmd) ==
    /\ cmd.vdaf = VdafSum8
    /\ cmd.vdaf_verify_key = "valid"
    /\ cmd.collector_hpke_config = "valid"
    /\ (cmd.role = "Leader") <=> IsSome(cmd.collector_authentication_token)
    /\ \/ cmd.query_type = 1 /\ ~IsSome(cmd.max_batch_size)
       \/ cmd.query_type = 2

IdleCall == [pc |-> "idle", cmd |-> MkCmd(None, None, None, NoneOpt, <<0, NoneOpt>>, VdafSum8, None, None), result |-> None, first |-> FALSE,
             afterOk |-> FALSE, overlapped |-> FALSE]

\* the three writes of internal_add_task
\* faulty variant: the leader token is written unconditionally
PutLeaderBearerTokenOverwrite(map, key, value) == put(map, key, value)
\* faulty variant: the leader token is reported written and is not
PutLeaderBearerTokenLost(map, key, value) == [map |-> map, existing |-> NoneOpt]
PutLeaderBearerToken(map, key, value) == put_if_not_exists(map, key, value)

Done(c, result) == [call EXCEPT ![c].pc = "done", ![c].result = result]

\* what follows the collector-token match once the tokens are in place: the
\* query match, then the TaskConfig write is issued
AfterCollectorToken(c, cl) ==
    IF QueryConfigOf(cl[c].cmd).ok
    THEN [cl EXCEPT ![c].pc = "config"]
    ELSE [cl EXCEPT ![c].pc = "done", ![c].result = QueryConfigOf(cl[c].cmd).err]

\* handlers are interchangeable: a request goes to the first free one
FirstFree(c, handlers) == \A d \in Callers : d < c => handlers[d].pc # "idle"

\* the call starts: parse the command, then put_if_not_exists the leader token
AddTaskLeaderToken(c, cmd, kvFails) ==
    /\ call[c].pc = "idle"
    /\ FirstFree(c, call)
    /\ started["t1"] + started["t2"] < MaxCalls
    /\ started' = [started EXCEPT ![cmd.task_id] = @ + 1]
    /\ LET t == cmd.task_id
           cl == [call EXCEPT ![c] = [pc |-> "leader", cmd |-> cmd, result |-> None,
                                      first |-> started[t] = 0,
                                      afterOk |-> succeeded[t] > 0,
                                      overlapped |-> \E d \in Callers \ {c} :
                                          /\ call[d].pc \in {"collector", "config"}
                                          /\ call[d].cmd.task_id = t]]
           wr == PutLeaderBearerToken(kvLeaderBearerToken, t, cmd.leader_authentication_token)
       IN  IF ParseCommand(cmd) # "ok" THEN
               /\ call' = [cl EXCEPT ![c].pc = "done", ![c].result = ParseCommand(cmd)]
               /\ UNCHANGED kvLeaderBearerToken
           ELSE IF kvFails THEN
               /\ call' = [cl EXCEPT ![c].pc = "done", ![c].result = ErrStorage]
               /\ UNCHANGED kvLeaderBearerToken
           ELSE IF IsSome(wr.existing) THEN
               /\ call' = [cl EXCEPT ![c].pc = "done", ![c].result = ErrLeaderTokenExists]
               /\ UNCHANGED kvLeaderBearerToken
           ELSE
               \* what follows the write: the collector-token match
               /\ call' = LET step == CollectorTokenStep(cl[c].cmd)
                          IN  IF step = "put" THEN [cl EXCEPT ![c].pc = "collector"]
                              ELSE IF step = "skip" THEN AfterCollectorToken(c, cl)
                              ELSE [cl EXCEPT ![c].pc = "done", ![c].result = step]
               /\ kvLeaderBearerToken' = wr.map
    /\ UNCHANGED <<kvCollectorBearerToken, kvTaskConfig, succeeded>>
    /\ UNCHANGED <<replayVars, codecVars, adminVars>>

\* put_if_not_exists of the collector token (role Leader with a token)
AddTaskCollectorToken(c, kvFails) ==
    /\ call[c].pc = "collector"
    /\ LET cmd == call[c].cmd
           wr == put_if_not_exists(kvCollectorBearerToken, cmd.task_id,
                                  Unwrap(cmd.collector_authentication_token))
       IN  IF kvFails THEN
               /\ call' = Done(c, ErrStorage)
               /\ UNCHANGED kvCollectorBearerToken
           ELSE IF IsSome(wr.existing) THEN
               /\ call' = Done(c, "token already exists for the given task and bearer role (collector)")
               /\ UNCHANGED kvCollectorBearerToken
           ELSE
               /\ call' = AfterCollectorToken(c, call)
               /\ kvCollectorBearerToken' = wr.map
    /\ UNCHANGED <<kvLeaderBearerToken, kvTaskConfig, started, succeeded>>
    /\ UNCHANGED <<replayVars, codecVars, adminVars>>

\* put_if_not_exists_with_expiration of the TaskConfig
AddTaskConfig(c, kvFails) ==
    /\ call[c].pc = "config"
    /\ LET cmd == call[c].cmd
           wr == put_if_not_exists(kvTaskConfig, cmd.task_id, DapTaskConfigOf(cmd))
       IN  IF kvFails THEN
               /\ call' = Done(c, ErrStorage)
               /\ UNCHANGED <<kvTaskConfig, succeeded>>
           ELSE IF IsSome(wr.existing) THEN
               /\ call' = Done(c, ErrConfigExists)
               /\ UNCHANGED <<kvTaskConfig, succeeded>>
           ELSE
               /\ call' = Done(c, "Ok")
               /\ kvTaskConfig' = wr.map
               /\ succeeded' = [succeeded EXCEPT ![cmd.task_id] = @ + 1]
    /\ UNCHANGED <<kvLeaderBearerToken, kvCollectorBearerToken, started>>
    /\ UNCHANGED <<replayVars, codecVars, adminVars>>

\* the response has been sent; the handler is free again
AddTaskReturn(c) ==
    /\ call[c].pc = "done"
    /\ call' = [call EXCEPT ![c] = IdleCall]
    /\ UNCHANGED <<kvLeaderBearerToken, kvCollectorBearerToken, kvTaskConfig, started, succeeded>>
    /\ UNCHANGED <<replayVars, codecVars, adminVars>>

(***************************************************************************)
(* The SkipReplayProtection override and the replay check of report        *)
(* processing (spec sections 4.4, 4.5 and 5).                              *)
(***************************************************************************)
\* the (task_id, nonce) pairs of the reports received
Pairs == {<<"t1", "n1">>, <<"t1", "n2">>, <<"t2", "n1">>}

\* an operator writes, or removes, the override in the remote store
SetSkipReplayProtection(opt) ==
    /\ kvGlobalOverride # opt
    /\ kvGlobalOverride' = opt
    /\ UNCHANGED <<cacheGlobalOverride, rp, replaySeen, finished, insecureFinish, reports>>
    /\ UNCHANGED <<taskVars, codecVars, adminVars>>

\* the cached entry reaches its TTL
CacheExpire ==
    /\ cacheGlobalOverride # CacheAbsent
    /\ cacheGlobalOverride' = CacheAbsent
    /\ UNCHANGED <<kvGlobalOverride, rp, replaySeen, finished, insecureFinish, reports>>
    /\ UNCHANGED <<taskVars, codecVars, adminVars>>

IdleReport == [pc |-> "idle", task_id |-> None, nonce |-> None, read |-> KvErr,
               replay_protection |-> None, seenBefore |-> FALSE, outcome |-> None]

\* a report share arrives: resolve the replay-protection policy
ReportResolve(c, t, n, remoteFails) ==
    /\ rp[c].pc = "idle"
    /\ FirstFree(c, rp)
    /\ reports < MaxReports
    /\ reports' = reports + 1
    /\ LET got == get_cloned(cacheGlobalOverride, kvGlobalOverride, remoteFails, TRUE)
       IN  /\ cacheGlobalOverride' = got.cache
           /\ rp' = [rp EXCEPT ![c] = [pc |-> "resolved", task_id |-> t, nonce |-> n,
                                       read |-> got.res,
                                       replay_protection |-> fetch_replay_protection_override(got.res),
                                       seenBefore |-> FALSE, outcome |-> None]]
    /\ UNCHANGED <<kvGlobalOverride, replaySeen, finished, insecureFinish>>
    /\ UNCHANGED <<taskVars, codecVars, adminVars>>

\* the atomic check-and-set of (task_id, nonce) in the replay cache; a pair
\* already seen is rejected unless replay protection is disabled
ReportCheckReplay(c) ==
    /\ rp[c].pc = "resolved"
    /\ LET pair == <<rp[c].task_id, rp[c].nonce>>
           seen == pair \in replaySeen
       IN  /\ replaySeen' = replaySeen \cup {pair}
           /\ IF seen /\ rp[c].replay_protection = "Enabled"
              THEN rp' = [rp EXCEPT ![c].pc = "done", ![c].seenBefore = seen,
                                    ![c].outcome = "Failed(ReportReplayed)"]
              ELSE rp' = [rp EXCEPT ![c].pc = "prepared", ![c].seenBefore = seen]
    /\ UNCHANGED <<kvGlobalOverride, cacheGlobalOverride, finished, insecureFinish, reports>>
    /\ UNCHANGED <<taskVars, codecVars, adminVars>>

\* VDAF preparation ends and the transition is persisted
ReportFinish(c, prepOk) ==
    /\ rp[c].pc = "prepared"
    /\ LET pair == <<rp[c].task_id, rp[c].nonce>>
       IN  IF prepOk
           THEN /\ rp' = [rp EXCEPT ![c].pc = "done", ![c].outcome = "Finished"]
                /\ finished' = [finished EXCEPT ![pair] = @ + 1]
                /\ insecureFinish' =
                       [insecureFinish EXCEPT ![pair] = @ \/ rp[c].read = KvOk(Some(TRUE))]
           ELSE /\ rp' = [rp EXCEPT ![c].pc = "done", ![c].outcome = "Failed(VdafPrepError)"]
                /\ UNCHANGED <<finished, insecureFinish>>
    /\ UNCHANGED <<kvGlobalOverride, cacheGlobalOverride, replaySeen, reports>>
    /\ UNCHANGED <<taskVars, codecVars, adminVars>>

ReportReturn(c) ==
    /\ rp[c].pc = "done"
    /\ rp' = [rp EXCEPT ![c] = IdleReport]
    /\ UNCHANGED <<kvGlobalOverride, cacheGlobalOverride, replaySeen, finished, insecureFinish, reports>>
    /\ UNCHANGED <<taskVars, codecVars, adminVars>>

(***************************************************************************)
(* The DAP wire codec (daphne/src/messages.rs).  A byte is a number in     *)
(* 0..255 and a byte string a sequence of bytes.  u8 and u16 are numbers;  *)
(* u32 and u64 are sequences of 16-bit limbs, most significant first, so   *)
(* that every value of the type has a representation.                      *)
(***************************************************************************)
\* bound: length of a variable-length byte field
MaxVecLen == 1
\* bound: number of items of a list field
MaxItems == 1
\* bound: length of the encodings whose bytes are overwritten one at a time
MaxTamperLen == 40
\* longest slice handed to constant_time_eq
MaxCmpLen == 2

\* [u8; 32] of Id and of the checksum, [u8; 16] of Nonce
IdLen == 32
NonceLen == 16
ChecksumLen == 32

DapVersions == {"Draft02", "Draft07"}

\* Result<T, CodecError> of a decoder, with the bytes the cursor has not read
DecOk(v, rest) == [err |-> "", val |-> <<v>>, rest |-> rest]
DecErr(e) == [err |-> e, val |-> <<>>, rest |-> <<>>]
NoResult == DecErr("none")
IsOk(r) == r.err = ""
Val(r) == r.val[1]
\* the ? operator: continue with K on Ok, return the error otherwise
Try(r, K(_)) == IF IsOk(r) THEN K(r) ELSE r

\* Cursor::read_exact
read_exact(bytes, n) ==
    IF Len(bytes) < n THEN DecErr("Io") ELSE DecOk(SubSeq(bytes, 1, n), SubSeq(bytes, n + 1, Len(bytes)))

\* prio::codec integer primitives, network byte order
U16OfBytes(b) == b[1] * 256 + b[2]
u8_encode(v) == <<v>>
u8_decode(bytes) == Try(read_exact(bytes, 1), LAMBDA r : DecOk(Val(r)[1], r.rest))
u16_encode(v) == <<v \div 256, v % 256>>
u16_decode(bytes) == Try(read_exact(bytes, 2), LAMBDA r : DecOk(U16OfBytes(Val(r)), r.rest))
u32_encode(w) == u16_encode(w[1]) \o u16_encode(w[2])
u32_decode(bytes) ==
    Try(read_exact(bytes, 4), LAMBDA r :
        DecOk(<<U16OfBytes(SubSeq(Val(r), 1, 2)), U16OfBytes(SubSeq(Val(r), 3, 4))>>, r.rest))
u64_encode(w) == u16_encode(w[1]) \o u16_encode(w[2]) \o u16_encode(w[3]) \o u16_encode(w[4])
u64_decode(bytes) ==
    Try(read_exact(bytes, 8), LAMBDA r :
        DecOk(<<U16OfBytes(SubSeq(Val(r), 1, 2)), U16OfBytes(SubSeq(Val(r), 3, 4)),
                U16OfBytes(SubSeq(Val(r), 5, 6)), U16OfBytes(SubSeq(Val(r), 7, 8))>>, r.rest))
\* u32::try_from(len) of a length below 2^32
U32OfLen(n) == <<n \div 65536, n % 65536>>

\* encode_u16_bytes, decode_u16_bytes, encode_u32_bytes, decode_u32_bytes
\* faulty variant: the loop is left at the first mismatch
constant_time_eq_early_exit(left, right) ==
    LET RECURSIVE loop(_, _)
        loop(i, n) ==
            IF i > Len(left) THEN [r |-> 0, n |-> n]
            ELSE IF left[i] # right[i] THEN [r |-> 1, n |-> n + 1]
            ELSE loop(i + 1, n + 1)
    IN  IF Len(left) # Len(right) THEN [value |-> FALSE, compared |-> 0]
        ELSE [value |-> loop(1, 0).r = 0, compared |-> loop(1, 0).n]
\* constant_time_eq: r |= x ^ y over the zipped slices, then r == 0; compared
\* counts the iterations of the loop
constant_time_eq(left, right) ==
    LET RECURSIVE bitwise(_, _, _, _)
        \* x ^ y and x | y on n bits
        bitwise(op, x, y, n) ==
            IF n = 0 THEN 0
            ELSE LET a == x % 2
                     b == y % 2
                     bit == IF op = "^" THEN (a + b) % 2 ELSE IF a + b > 0 THEN 1 ELSE 0
                 IN  bit + 2 * bitwise(op, x \div 2, y \div 2, n - 1)
        RECURSIVE loop(_, _, _)
        loop(i, r, n) ==
            IF i > Len(left) \/ i > Len(right) THEN [r |-> r, n |-> n]
            ELSE loop(i + 1, bitwise("|", r, bitwise("^", left[i], right[i], 8), 8), n + 1)
    IN  IF Len(left) # Len(right) THEN [value |-> FALSE, compared |-> 0]
        ELSE [value |-> loop(1, 0, 0).r = 0, compared |-> loop(1, 0, 0).n]
\* faulty variant: the length is cut to the width of the prefix
length_prefix_wrapping(width, len) ==
    [panic |-> FALSE,
     bytes |-> IF width = 2 THEN u16_encode(len[4]) ELSE u32_encode(<<len[3], len[4]>>)]
\* u16::try_from(input.len()) / u32::try_from(input.len()), expect, encode:
\* the usize len, in four 16-bit limbs, as a prefix of width bytes
length_prefix(width, len) ==
    IF \E i \in 1..(4 - (width \div 2)) : len[i] # 0
    THEN [panic |-> TRUE, bytes |-> <<>>]
    ELSE [panic |-> FALSE,
          bytes |-> IF width = 2 THEN u16_encode(len[4]) ELSE u32_encode(<<len[3], len[4]>>)]
encode_u16_bytes(input) == length_prefix(2, <<0, 0>> \o U32OfLen(Len(input))).bytes \o input
decode_u16_bytes(bytes) ==
    Try(u16_decode(bytes), LAMBDA len : read_exact(len.rest, Val(len)))
encode_u32_bytes_u16_prefix(input) == u16_encode(Len(input)) \o input
encode_u32_bytes(input) == length_prefix(4, <<0, 0>> \o U32OfLen(Len(input))).bytes \o input
\* a length of 2^16 or more exceeds every buffer of the model
decode_u32_bytes(bytes) ==
    Try(u32_decode(bytes), LAMBDA len :
        IF Val(len)[1] > 0 THEN DecErr("Io") ELSE read_exact(len.rest, Val(len)[2]))

\* prio::codec::encode_u16_items / encode_u32_items over the
\* encodings of the items: the byte length, then the items
RECURSIVE Concat(_)
Concat(seqs) == IF seqs = <<>> THEN <<>> ELSE Head(seqs) \o Concat(Tail(seqs))
encode_u16_items(items) == u16_encode(Len(Concat(items))) \o Concat(items)
encode_u32_items(items) == u32_encode(U32OfLen(Len(Concat(items)))) \o Concat(items)
\* prio::codec::decode_items: the sub-slice the length prefix delimits
items_slice(len, rest) ==
    IF len > Len(rest) THEN DecErr("LengthPrefixTooBig")
    ELSE DecOk(SubSeq(rest, 1, len), SubSeq(rest, len + 1, Len(rest)))
decode_u16_items_slice(bytes) ==
    Try(u16_decode(bytes), LAMBDA len : items_slice(Val(len), len.rest))
decode_u32_items_slice(bytes) ==
    Try(u32_decode(bytes), LAMBDA len :
        IF Val(len)[1] > 0 THEN DecErr("LengthPrefixTooBig")
        ELSE items_slice(Val(len)[2], len.rest))
\* prio::codec::decode_items: the items of type D that fill the sub-slice
RECURSIVE decode_all(_, _)

\* Id, Nonce: raw bytes
Id_encode(id) == id
Id_decode(bytes) == read_exact(bytes, IdLen)
Nonce_encode(nonce) == nonce
Nonce_decode(bytes) == read_exact(bytes, NonceLen)

\* Extension
Extension_encode(e) == u16_encode(e.typ) \o encode_u16_bytes(e.payload)
Extension_decode(bytes) ==
    Try(u16_decode(bytes), LAMBDA typ :
    Try(decode_u16_bytes(typ.rest), LAMBDA payload :
    DecOk([typ |-> Val(typ), payload |-> Val(payload)], payload.rest)))

\* ReportMetadata
ReportMetadata_encode(m) ==
    u64_encode(m.time) \o Nonce_encode(m.nonce)
    \o encode_u16_items([i \in DOMAIN m.extensions |-> Extension_encode(m.extensions[i])])
ReportMetadata_decode(bytes) ==
    Try(u64_decode(bytes), LAMBDA time :
    Try(Nonce_decode(time.rest), LAMBDA nonce :
    Try(decode_u16_items_slice(nonce.rest), LAMBDA sub :
    Try(decode_all("Extension", Val(sub)), LAMBDA extensions :
    DecOk([time |-> Val(time), nonce |-> Val(nonce), extensions |-> Val(extensions)],
          sub.rest)))))

\* HpkeCiphertext
HpkeCiphertext_encode(c) ==
    u8_encode(c.config_id) \o encode_u16_bytes(c.enc) \o encode_u32_bytes(c.payload)
HpkeCiphertext_decode(bytes) ==
    Try(u8_decode(bytes), LAMBDA config_id :
    Try(decode_u16_bytes(config_id.rest), LAMBDA enc :
    Try(decode_u32_bytes(enc.rest), LAMBDA payload :
    DecOk([config_id |-> Val(config_id), enc |-> Val(enc), payload |-> Val(payload)],
          payload.rest))))

\* Report
\* faulty variant: the nonce is written before the time
Report_encode_nonce_first(r) ==
    Id_encode(r.task_id) \o Nonce_encode(r.metadata.nonce) \o u64_encode(r.metadata.time)
    \o encode_u16_items([i \in DOMAIN r.metadata.extensions |->
                            Extension_encode(r.metadata.extensions[i])])
    \o encode_u32_bytes(r.public_share)
    \o encode_u32_items([i \in DOMAIN r.encrypted_input_shares |->
                            HpkeCiphertext_encode(r.encrypted_input_shares[i])])
Report_encode(r) ==
    Id_encode(r.task_id) \o ReportMetadata_encode(r.metadata)
    \o encode_u32_bytes(r.public_share)
    \o encode_u32_items([i \in DOMAIN r.encrypted_input_shares |->
                            HpkeCiphertext_encode(r.encrypted_input_shares[i])])
Report_decode(bytes) ==
    Try(Id_decode(bytes), LAMBDA task_id :
    Try(ReportMetadata_decode(task_id.rest), LAMBDA metadata :
    Try(decode_u32_bytes(metadata.rest), LAMBDA public_share :
    Try(decode_u32_items_slice(public_share.rest), LAMBDA sub :
    Try(decode_all("HpkeCiphertext", Val(sub)), LAMBDA shares :
    DecOk([task_id |-> Val(task_id), metadata |-> Val(metadata),
           public_share |-> Val(public_share), encrypted_input_shares |-> Val(shares)],
          sub.rest))))))

\* ReportShare
ReportShare_encode(r) ==
    ReportMetadata_encode(r.metadata) \o encode_u32_bytes(r.public_share)
    \o HpkeCiphertext_encode(r.encrypted_input_share)
ReportShare_decode(bytes) ==
    Try(ReportMetadata_decode(bytes), LAMBDA metadata :
    Try(decode_u32_bytes(metadata.rest), LAMBDA public_share :
    Try(HpkeCiphertext_decode(public_share.rest), LAMBDA share :
    DecOk([metadata |-> Val(metadata), public_share |-> Val(public_share),
           encrypted_input_share |-> Val(share)], share.rest))))

\* type codes (messages.rs constants)
KEM_ID_X25519_HKDF_SHA256 == 32
KEM_ID_P256_HKDF_SHA256 == 16
KDF_ID_HKDF_SHA256 == 1
AEAD_ID_AES128GCM == 1
QUERY_TYPE_TIME_INTERVAL == 1
QUERY_TYPE_FIXED_SIZE == 2
\* QUERY_TYPE_* are declared u16: Encode writes them as two bytes

\* BatchParameter
BatchParameter_encode(b) ==
    IF b.var = "TimeInterval" THEN u16_encode(QUERY_TYPE_TIME_INTERVAL)
    ELSE u16_encode(QUERY_TYPE_FIXED_SIZE) \o Id_encode(b.batch_id)
\* faulty variant: the tag is one byte wide
BatchParameter_decode_u8_tag(bytes) ==
    Try(u8_decode(bytes), LAMBDA typ :
        IF Val(typ) = QUERY_TYPE_TIME_INTERVAL THEN DecOk([var |-> "TimeInterval"], typ.rest)
        ELSE IF Val(typ) = QUERY_TYPE_FIXED_SIZE
        THEN Try(Id_decode(typ.rest), LAMBDA batch_id :
                 DecOk([var |-> "FixedSize", batch_id |-> Val(batch_id)], batch_id.rest))
        ELSE DecErr("UnexpectedValue"))
BatchParameter_decode(bytes) ==
    Try(u16_decode(bytes), LAMBDA typ :
        IF Val(typ) = QUERY_TYPE_TIME_INTERVAL
        THEN DecOk([var |-> "TimeInterval"], typ.rest)
        ELSE IF Val(typ) = QUERY_TYPE_FIXED_SIZE
        THEN Try(Id_decode(typ.rest), LAMBDA batch_id :
                 DecOk([var |-> "FixedSize", batch_id |-> Val(batch_id)], batch_id.rest))
        ELSE DecErr("UnexpectedValue"))

\* AggregateInitializeReq
AggregateInitializeReq_encode(r) ==
    Id_encode(r.task_id) \o Id_encode(r.agg_job_id) \o encode_u16_bytes(r.agg_param)
    \o BatchParameter_encode(r.batch_param)
    \o encode_u32_items([i \in DOMAIN r.report_shares |-> ReportShare_encode(r.report_shares[i])])
AggregateInitializeReq_decode(bytes) ==
    Try(Id_decode(bytes), LAMBDA task_id :
    Try(Id_decode(task_id.rest), LAMBDA agg_job_id :
    Try(decode_u16_bytes(agg_job_id.rest), LAMBDA agg_param :
    Try(BatchParameter_decode(agg_param.rest), LAMBDA batch_param :
    Try(decode_u32_items_slice(batch_param.rest), LAMBDA sub :
    Try(decode_all("ReportShare", Val(sub)), LAMBDA report_shares :
    DecOk([task_id |-> Val(task_id), agg_job_id |-> Val(agg_job_id),
           agg_param |-> Val(agg_param), batch_param |-> Val(batch_param),
           report_shares |-> Val(report_shares)], sub.rest)))))))

\* TransitionFailure: the variants in the order of their codes 0..6
TransitionFailures ==
    <<"BatchCollected", "ReportReplayed", "ReportDropped", "HpkeUnknownConfigId",
      "HpkeDecryptError", "VdafPrepError", "BatchSaturated">>
\* faulty variant: every byte above 5 is BatchSaturated
TransitionFailure_try_from_open(v) ==
    IF v + 1 \in DOMAIN TransitionFailures THEN Some(TransitionFailures[v + 1])
    ELSE Some("BatchSaturated")
TransitionFailure_try_from(v) ==
    IF v + 1 \in DOMAIN TransitionFailures THEN Some(TransitionFailures[v + 1]) ELSE NoneOpt
TransitionFailure_encode(f) ==
    u8_encode((CHOOSE i \in DOMAIN TransitionFailures : TransitionFailures[i] = f) - 1)
TransitionFailure_decode(bytes) ==
    Try(u8_decode(bytes), LAMBDA v :
        IF IsSome(TransitionFailure_try_from(Val(v)))
        THEN DecOk(Unwrap(TransitionFailure_try_from(Val(v))), v.rest)
        ELSE DecErr("UnexpectedValue"))

\* TransitionVar
TransitionVar_encode(t) ==
    CASE t.var = "Continued" -> u8_encode(0) \o encode_u32_bytes(t.vdaf_message)
      [] t.var = "Finished" -> u8_encode(1)
      [] t.var = "Failed" -> u8_encode(2) \o TransitionFailure_encode(t.failure)
\* faulty variant: an unknown tag is read as Finished
TransitionVar_decode_lenient(bytes) ==
    Try(u8_decode(bytes), LAMBDA tag :
        CASE Val(tag) = 0 ->
                 Try(decode_u32_bytes(tag.rest), LAMBDA m :
                     DecOk([var |-> "Continued", vdaf_message |-> Val(m)], m.rest))
          [] Val(tag) = 2 ->
                 Try(TransitionFailure_decode(tag.rest), LAMBDA f :
                     DecOk([var |-> "Failed", failure |-> Val(f)], f.rest))
          [] OTHER -> DecOk([var |-> "Finished"], tag.rest))
TransitionVar_decode(bytes) ==
    Try(u8_decode(bytes), LAMBDA tag :
        CASE Val(tag) = 0 ->
                 Try(decode_u32_bytes(tag.rest), LAMBDA m :
                     DecOk([var |-> "Continued", vdaf_message |-> Val(m)], m.rest))
          [] Val(tag) = 1 -> DecOk([var |-> "Finished"], tag.rest)
          [] Val(tag) = 2 ->
                 Try(TransitionFailure_decode(tag.rest), LAMBDA f :
                     DecOk([var |-> "Failed", failure |-> Val(f)], f.rest))
          [] OTHER -> DecErr("UnexpectedValue"))

\* Transition
Transition_encode(t) == Nonce_encode(t.nonce) \o TransitionVar_encode(t.var)
Transition_decode(bytes) ==
    Try(Nonce_decode(bytes), LAMBDA nonce :
    Try(TransitionVar_decode(nonce.rest), LAMBDA var :
    DecOk([nonce |-> Val(nonce), var |-> Val(var)], var.rest)))

\* AggregateContinueReq
AggregateContinueReq_encode(r) ==
    Id_encode(r.task_id) \o Id_encode(r.agg_job_id)
    \o encode_u32_items([i \in DOMAIN r.transitions |-> Transition_encode(r.transitions[i])])
AggregateContinueReq_decode(bytes) ==
    Try(Id_decode(bytes), LAMBDA task_id :
    Try(Id_decode(task_id.rest), LAMBDA agg_job_id :
    Try(decode_u32_items_slice(agg_job_id.rest), LAMBDA sub :
    Try(decode_all("Transition", Val(sub)), LAMBDA transitions :
    DecOk([task_id |-> Val(task_id), agg_job_id |-> Val(agg_job_id),
           transitions |-> Val(transitions)], sub.rest)))))

\* AggregateResp
AggregateResp_encode(r) ==
    encode_u32_items([i \in DOMAIN r.transitions |-> Transition_encode(r.transitions[i])])
AggregateResp_decode(bytes) ==
    Try(decode_u32_items_slice(bytes), LAMBDA sub :
    Try(decode_all("Transition", Val(sub)), LAMBDA transitions :
    DecOk([transitions |-> Val(transitions)], sub.rest)))

\* Interval
\* `%` panics on a zero divisor ("attempt to calculate the remainder with a
\* divisor of zero") in every build profile
is_valid_for(self, task_config) ==
    IF task_config.min_batch_duration = 0 THEN [panic |-> TRUE, value |-> FALSE]
    ELSE [panic |-> FALSE,
          value |-> ~(\/ self.start % task_config.min_batch_duration # 0
                      \/ self.duration % task_config.min_batch_duration # 0
                      \/ self.duration < task_config.min_batch_duration)]
Interval_encode(i) == u64_encode(i.start) \o u64_encode(i.duration)
Interval_decode(bytes) ==
    Try(u64_decode(bytes), LAMBDA start :
    Try(u64_decode(start.rest), LAMBDA duration :
    DecOk([start |-> Val(start), duration |-> Val(duration)], duration.rest)))

\* Query (and BatchSelector, the same type)
Query_encode(q) ==
    IF q.var = "TimeInterval"
    THEN u16_encode(QUERY_TYPE_TIME_INTERVAL) \o Interval_encode(q.batch_interval)
    ELSE u16_encode(QUERY_TYPE_FIXED_SIZE) \o Id_encode(q.batch_id)
Query_decode(bytes) ==
    Try(u16_decode(bytes), LAMBDA typ :
        IF Val(typ) = QUERY_TYPE_TIME_INTERVAL
        THEN Try(Interval_decode(typ.rest), LAMBDA i :
                 DecOk([var |-> "TimeInterval", batch_interval |-> Val(i)], i.rest))
        ELSE IF Val(typ) = QUERY_TYPE_FIXED_SIZE
        THEN Try(Id_decode(typ.rest), LAMBDA batch_id :
                 DecOk([var |-> "FixedSize", batch_id |-> Val(batch_id)], batch_id.rest))
        ELSE DecErr("UnexpectedValue"))

\* CollectReq
CollectReq_encode(r) ==
    Id_encode(r.task_id) \o Query_encode(r.query) \o encode_u16_bytes(r.agg_param)
CollectReq_decode(bytes) ==
    Try(Id_decode(bytes), LAMBDA task_id :
    Try(Query_decode(task_id.rest), LAMBDA query :
    Try(decode_u16_bytes(query.rest), LAMBDA agg_param :
    DecOk([task_id |-> Val(task_id), query |-> Val(query), agg_param |-> Val(agg_param)],
          agg_param.rest))))

\* CollectResp
CollectResp_encode(r) ==
    u64_encode(r.report_count)
    \o encode_u32_items([i \in DOMAIN r.encrypted_agg_shares |->
                            HpkeCiphertext_encode(r.encrypted_agg_shares[i])])
CollectResp_decode(bytes) ==
    Try(u64_decode(bytes), LAMBDA report_count :
    Try(decode_u32_items_slice(report_count.rest), LAMBDA sub :
    Try(decode_all("HpkeCiphertext", Val(sub)), LAMBDA shares :
    DecOk([report_count |-> Val(report_count), encrypted_agg_shares |-> Val(shares)],
          sub.rest))))

\* AggregateShareReq
AggregateShareReq_encode(r) ==
    Id_encode(r.task_id) \o Query_encode(r.batch_selector) \o encode_u16_bytes(r.agg_param)
    \o u64_encode(r.report_count) \o r.checksum
AggregateShareReq_decode(bytes) ==
    Try(Id_decode(bytes), LAMBDA task_id :
    Try(Query_decode(task_id.rest), LAMBDA batch_selector :
    Try(decode_u16_bytes(batch_selector.rest), LAMBDA agg_param :
    Try(u64_decode(agg_param.rest), LAMBDA report_count :
    Try(read_exact(report_count.rest, ChecksumLen), LAMBDA checksum :
    DecOk([task_id |-> Val(task_id), batch_selector |-> Val(batch_selector),
           agg_param |-> Val(agg_param), report_count |-> Val(report_count),
           checksum |-> Val(checksum)], checksum.rest))))))

\* AggregateShareResp
AggregateShareResp_encode(r) == HpkeCiphertext_encode(r.encrypted_agg_share)
AggregateShareResp_decode(bytes) ==
    Try(HpkeCiphertext_decode(bytes), LAMBDA share :
    DecOk([encrypted_agg_share |-> Val(share)], share.rest))

\* HpkeKemId, HpkeKdfId, HpkeAeadId
HpkeKemId_encode(k) ==
    u16_encode(CASE k.var = "P256HkdfSha256" -> KEM_ID_P256_HKDF_SHA256
                 [] k.var = "X25519HkdfSha256" -> KEM_ID_X25519_HKDF_SHA256
                 [] k.var = "NotImplemented" -> k.x)
\* faulty variant: a code without a named variant is refused
HpkeKemId_decode_strict(bytes) ==
    Try(u16_decode(bytes), LAMBDA x :
        IF Val(x) = KEM_ID_P256_HKDF_SHA256 THEN DecOk([var |-> "P256HkdfSha256"], x.rest)
        ELSE IF Val(x) = KEM_ID_X25519_HKDF_SHA256 THEN DecOk([var |-> "X25519HkdfSha256"], x.rest)
        ELSE DecErr("UnexpectedValue"))
HpkeKemId_decode(bytes) ==
    Try(u16_decode(bytes), LAMBDA x :
        IF Val(x) = KEM_ID_P256_HKDF_SHA256 THEN DecOk([var |-> "P256HkdfSha256"], x.rest)
        ELSE IF Val(x) = KEM_ID_X25519_HKDF_SHA256
        THEN DecOk([var |-> "X25519HkdfSha256"], x.rest)
        ELSE DecOk([var |-> "NotImplemented", x |-> Val(x)], x.rest))
HpkeKdfId_encode(k) == u16_encode(IF k.var = "HkdfSha256" THEN KDF_ID_HKDF_SHA256 ELSE k.x)
HpkeKdfId_decode(bytes) ==
    Try(u16_decode(bytes), LAMBDA x :
        IF Val(x) = KDF_ID_HKDF_SHA256 THEN DecOk([var |-> "HkdfSha256"], x.rest)
        ELSE DecOk([var |-> "NotImplemented", x |-> Val(x)], x.rest))
\* faulty variant: NotImplemented(x) loses x
HpkeAeadId_to_u16_known(a) == AEAD_ID_AES128GCM
HpkeAeadId_to_u16(a) == IF a.var = "Aes128Gcm" THEN AEAD_ID_AES128GCM ELSE a.x
HpkeAeadId_encode(a) == u16_encode(HpkeAeadId_to_u16(a))
HpkeAeadId_decode(bytes) ==
    Try(u16_decode(bytes), LAMBDA x :
        IF Val(x) = AEAD_ID_AES128GCM THEN DecOk([var |-> "Aes128Gcm"], x.rest)
        ELSE DecOk([var |-> "NotImplemented", x |-> Val(x)], x.rest))

\* HpkeConfig
HpkeConfig_encode(c) ==
    u8_encode(c.id) \o HpkeKemId_encode(c.kem_id) \o HpkeKdfId_encode(c.kdf_id)
    \o HpkeAeadId_encode(c.aead_id) \o encode_u16_bytes(c.public_key)
HpkeConfig_decode(bytes) ==
    Try(u8_decode(bytes), LAMBDA id :
    Try(HpkeKemId_decode(id.rest), LAMBDA kem_id :
    Try(HpkeKdfId_decode(kem_id.rest), LAMBDA kdf_id :
    Try(HpkeAeadId_decode(kdf_id.rest), LAMBDA aead_id :
    Try(decode_u16_bytes(aead_id.rest), LAMBDA public_key :
    DecOk([id |-> Val(id), kem_id |-> Val(kem_id), kdf_id |-> Val(kdf_id),
           aead_id |-> Val(aead_id), public_key |-> Val(public_key)],
          public_key.rest))))))

(***************************************************************************)
(* The taskprov messages (daphne/src/messages/taskprov.rs), encoded and    *)
(* decoded for a DapVersion.                                               *)
(***************************************************************************)
\* 0xFFFF_0000 as limbs
VDAF_TYPE_PRIO2 == <<65535, 0>>
DP_MECHANISM_NONE == 1

\* UrlBytes
UrlBytes_encode(u) == encode_u16_bytes(u.bytes)
UrlBytes_decode(bytes) ==
    Try(decode_u16_bytes(bytes), LAMBDA b : DecOk([bytes |-> Val(b)], b.rest))

\* Decode::decode of the item type D; the unit type () is read from no byte
item_decode(D, bytes) ==
    CASE D = "u8" -> u8_decode(bytes)
      [] D = "u32" -> u32_decode(bytes)
      [] D = "()" -> DecOk("()", bytes)
      [] D = "Extension" -> Extension_decode(bytes)
      [] D = "HpkeCiphertext" -> HpkeCiphertext_decode(bytes)
      [] D = "ReportShare" -> ReportShare_decode(bytes)
      [] D = "Transition" -> Transition_decode(bytes)
      [] D = "UrlBytes" -> UrlBytes_decode(bytes)
decode_all(D, sub) ==
    IF sub = <<>> THEN DecOk(<<>>, <<>>)
    ELSE Try(item_decode(D, sub), LAMBDA it :
         Try(decode_all(D, it.rest), LAMBDA more :
         DecOk(<<Val(it)>> \o Val(more), <<>>)))

\* encode_u16_item_for_version / decode_u16_item_for_version: under Draft07
\* the item carries a u16 length prefix and must fill it, under Draft02 it is
\* written and read bare; the unit type () is written as no byte
encode_u16_item_for_version(version, item) ==
    IF version = "Draft07" THEN encode_u16_bytes(item) ELSE item
decode_u16_item_for_version(version, bytes, D) ==
    IF version = "Draft07"
    THEN Try(decode_u16_bytes(bytes), LAMBDA sub :
         Try(item_decode(D, Val(sub)), LAMBDA it :
             IF it.rest # <<>> THEN DecErr("BytesLeftOver") ELSE DecOk(Val(it), sub.rest)))
    ELSE item_decode(D, bytes)

\* VdafTypeVar
VdafTypeVar_encode(version, v) ==
    IF v.var = "Prio2"
    THEN u32_encode(VDAF_TYPE_PRIO2)
         \o encode_u16_item_for_version(version, u32_encode(v.dimension))
    ELSE u32_encode(v.typ)
         \o (IF version = "Draft07" THEN encode_u16_bytes(v.param) ELSE v.param)
VdafTypeVar_decode(version, bytes) ==
    Try(u32_decode(bytes), LAMBDA vdaf_type :
        IF Val(vdaf_type) = VDAF_TYPE_PRIO2
        THEN Try(decode_u16_item_for_version(version, vdaf_type.rest, "u32"),
                 LAMBDA dimension :
                     DecOk([var |-> "Prio2", dimension |-> Val(dimension)], dimension.rest))
        ELSE IF version = "Draft07"
        THEN Try(decode_u16_bytes(vdaf_type.rest), LAMBDA param :
                 DecOk([var |-> "NotImplemented", typ |-> Val(vdaf_type),
                        param |-> Val(param)], param.rest))
        ELSE DecErr("UnexpectedValue"))

\* DpConfig
DpConfig_decode_lenient(version, bytes) ==
    Try(u8_decode(bytes), LAMBDA dp_mechanism :
        IF Val(dp_mechanism) = DP_MECHANISM_NONE
        THEN Try(decode_u16_item_for_version(version, dp_mechanism.rest, "()"),
                 LAMBDA u : DecOk([var |-> "None"], u.rest))
        ELSE Try(decode_u16_bytes(dp_mechanism.rest), LAMBDA param :
                 DecOk([var |-> "NotImplemented", typ |-> Val(dp_mechanism),
                        param |-> Val(param)], param.rest)))
DpConfig_encode(version, d) ==
    IF d.var = "None"
    THEN u8_encode(DP_MECHANISM_NONE) \o encode_u16_item_for_version(version, <<>>)
    ELSE u8_encode(d.typ)
         \o (IF version = "Draft07" THEN encode_u16_bytes(d.param) ELSE d.param)
DpConfig_decode(version, bytes) ==
    Try(u8_decode(bytes), LAMBDA dp_mechanism :
        IF Val(dp_mechanism) = DP_MECHANISM_NONE
        THEN Try(decode_u16_item_for_version(version, dp_mechanism.rest, "()"),
                 LAMBDA u : DecOk([var |-> "None"], u.rest))
        ELSE IF version = "Draft07"
        THEN Try(decode_u16_bytes(dp_mechanism.rest), LAMBDA param :
                 DecOk([var |-> "NotImplemented", typ |-> Val(dp_mechanism),
                        param |-> Val(param)], param.rest))
        ELSE DecErr("UnexpectedValue"))

\* VdafConfig
VdafConfig_encode(version, c) ==
    DpConfig_encode(version, c.dp_config) \o VdafTypeVar_encode(version, c.var)
VdafConfig_decode(version, bytes) ==
    Try(DpConfig_decode(version, bytes), LAMBDA dp_config :
    Try(VdafTypeVar_decode(version, dp_config.rest), LAMBDA var :
    DecOk([dp_config |-> Val(dp_config), var |-> Val(var)], var.rest)))

\* QueryConfig::encode_query_type
QueryConfig_encode_query_type(q) ==
    CASE q.var.var = "TimeInterval" -> u16_encode(QUERY_TYPE_TIME_INTERVAL)
      [] q.var.var = "FixedSize" -> u16_encode(QUERY_TYPE_FIXED_SIZE)
      [] q.var.var = "NotImplemented" -> u8_encode(q.var.typ)
\* the three fixed fields of a QueryConfig
QueryConfig_encode_fields(q) ==
    u64_encode(q.time_precision) \o u16_encode(q.max_batch_query_count)
    \o u32_encode(q.min_batch_size)
\* the match on self.var of QueryConfig::encode_with_param
QueryConfig_encode_var(version, q) ==
    CASE q.var.var = "TimeInterval" ->
             u16_encode(QUERY_TYPE_TIME_INTERVAL)
             \o encode_u16_item_for_version(version, <<>>)
      [] q.var.var = "FixedSize" ->
             u16_encode(QUERY_TYPE_FIXED_SIZE)
             \o encode_u16_item_for_version(version, u32_encode(q.var.max_batch_size))
      [] q.var.var = "NotImplemented" ->
             u8_encode(q.var.typ)
             \o (IF version = "Draft07" THEN encode_u16_bytes(q.var.param) ELSE q.var.param)
QueryConfig_encode(version, q) ==
    (IF version = "Draft02" THEN QueryConfig_encode_query_type(q) ELSE <<>>)
    \o QueryConfig_encode_fields(q) \o QueryConfig_encode_var(version, q)

\* QueryConfig::decode_with_param up to the query type: the fields, the tag the
\* match uses, and the offset and width of the read that produced that tag.
\* query_type.unwrap_or(u8::decode(bytes)?) reads its argument in both versions.
QueryConfig_decode_head(version, bytes) ==
    LET first == IF version = "Draft07" THEN DecOk(NoneOpt, bytes)
                 ELSE Try(u8_decode(bytes), LAMBDA t : DecOk(Some(Val(t)), t.rest))
    IN  Try(first, LAMBDA query_type :
        Try(u64_decode(query_type.rest), LAMBDA time_precision :
        Try(u16_decode(time_precision.rest), LAMBDA max_batch_query_count :
        Try(u32_decode(max_batch_query_count.rest), LAMBDA min_batch_size :
        Try(u8_decode(min_batch_size.rest), LAMBDA second :
        DecOk([time_precision |-> Val(time_precision),
               max_batch_query_count |-> Val(max_batch_query_count),
               min_batch_size |-> Val(min_batch_size),
               query_type |-> IF IsSome(Val(query_type)) THEN Unwrap(Val(query_type))
                              ELSE Val(second),
               tag_pos |-> IF IsSome(Val(query_type)) THEN 0
                           ELSE Len(bytes) - Len(min_batch_size.rest),
               tag_width |-> IF IsSome(Val(query_type))
                             THEN Len(bytes) - Len(query_type.rest)
                             ELSE Len(min_batch_size.rest) - Len(second.rest)],
              second.rest))))))
\* the match on (version, query_type)
QueryConfigVar_decode(version, query_type, bytes) ==
    IF query_type = QUERY_TYPE_TIME_INTERVAL
    THEN Try(decode_u16_item_for_version(version, bytes, "()"), LAMBDA u :
             DecOk([var |-> "TimeInterval"], u.rest))
    ELSE IF query_type = QUERY_TYPE_FIXED_SIZE
    THEN Try(decode_u16_item_for_version(version, bytes, "u32"), LAMBDA m :
             DecOk([var |-> "FixedSize", max_batch_size |-> Val(m)], m.rest))
    ELSE IF version = "Draft07"
    THEN Try(decode_u16_bytes(bytes), LAMBDA param :
             DecOk([var |-> "NotImplemented", typ |-> query_type, param |-> Val(param)],
                   param.rest))
    ELSE DecErr("UnexpectedValue")
QueryConfig_decode(version, bytes) ==
    Try(QueryConfig_decode_head(version, bytes), LAMBDA head :
    Try(QueryConfigVar_decode(version, Val(head).query_type, head.rest), LAMBDA var :
    DecOk([time_precision |-> Val(head).time_precision,
           max_batch_query_count |-> Val(head).max_batch_query_count,
           min_batch_size |-> Val(head).min_batch_size,
           var |-> Val(var)], var.rest)))

\* TaskConfig
TaskConfig_encode(version, t) ==
    \* encode_u8_items: the bytes of task_info behind their count
    u8_encode(Len(t.task_info)) \o t.task_info
    \o (IF version = "Draft02"
        THEN encode_u16_items(<<UrlBytes_encode(t.leader_url), UrlBytes_encode(t.helper_url)>>)
        ELSE UrlBytes_encode(t.leader_url) \o UrlBytes_encode(t.helper_url))
    \o QueryConfig_encode(version, t.query_config)
    \o u64_encode(t.task_expiration)
    \o VdafConfig_encode(version, t.vdaf_config)
TaskConfig_decode(version, bytes) ==
    LET \* the [leader_url, helper_url] pair
        decode_urls(b) ==
            IF version = "Draft02"
            THEN Try(decode_u16_items_slice(b), LAMBDA sub :
                 Try(decode_all("UrlBytes", Val(sub)), LAMBDA urls :
                     IF Len(Val(urls)) # 2 THEN DecErr("UnexpectedValue")
                     ELSE DecOk(Val(urls), sub.rest)))
            ELSE Try(UrlBytes_decode(b), LAMBDA leader_url :
                 Try(UrlBytes_decode(leader_url.rest), LAMBDA helper_url :
                     DecOk(<<Val(leader_url), Val(helper_url)>>, helper_url.rest)))
    IN
    \* decode_u8_items
    Try(Try(u8_decode(bytes), LAMBDA len : items_slice(Val(len), len.rest)), LAMBDA sub :
    Try(decode_all("u8", Val(sub)), LAMBDA task_info :
    Try(decode_urls(sub.rest), LAMBDA urls :
    Try(QueryConfig_decode(version, urls.rest), LAMBDA query_config :
    Try(u64_decode(query_config.rest), LAMBDA task_expiration :
    Try(VdafConfig_decode(version, task_expiration.rest), LAMBDA vdaf_config :
    DecOk([task_info |-> Val(task_info), leader_url |-> Val(urls)[1],
           helper_url |-> Val(urls)[2], query_config |-> Val(query_config),
           task_expiration |-> Val(task_expiration), vdaf_config |-> Val(vdaf_config)],
          vdaf_config.rest)))))))

(***************************************************************************)
(* Encode / Decode::get_decoded by message type, and the messages and byte *)
(* strings the codec is run on.                                            *)
(***************************************************************************)
\* the message types of messages.rs
DapMessageTypes ==
    {"Report", "ReportShare", "AggregateInitializeReq", "AggregateContinueReq",
     "AggregateResp", "Transition", "CollectReq", "CollectResp", "AggregateShareReq",
     "AggregateShareResp", "HpkeConfig", "HpkeCiphertext", "Interval", "Query",
     "BatchParameter"}
\* the message types of taskprov.rs, which take a DapVersion
TaskprovTypes == {"QueryConfig", "DpConfig", "VdafTypeVar", "VdafConfig", "TaskConfig"}
\* the enumerations of messages.rs with an Encode and a Decode of their own
EnumTypes == {"HpkeKemId", "HpkeKdfId", "HpkeAeadId", "TransitionFailure", "TransitionVar"}

Encode(ty, version, m) ==
    CASE ty = "Report" -> Report_encode(m)
      [] ty = "ReportShare" -> ReportShare_encode(m)
      [] ty = "AggregateInitializeReq" -> AggregateInitializeReq_encode(m)
      [] ty = "AggregateContinueReq" -> AggregateContinueReq_encode(m)
      [] ty = "AggregateResp" -> AggregateResp_encode(m)
      [] ty = "Transition" -> Transition_encode(m)
      [] ty = "CollectReq" -> CollectReq_encode(m)
      [] ty = "CollectResp" -> CollectResp_encode(m)
      [] ty = "AggregateShareReq" -> AggregateShareReq_encode(m)
      [] ty = "AggregateShareResp" -> AggregateShareResp_encode(m)
      [] ty = "HpkeConfig" -> HpkeConfig_encode(m)
      [] ty = "HpkeCiphertext" -> HpkeCiphertext_encode(m)
      [] ty = "Interval" -> Interval_encode(m)
      [] ty = "Query" -> Query_encode(m)
      [] ty = "BatchParameter" -> BatchParameter_encode(m)
      [] ty = "QueryConfig" -> QueryConfig_encode(version, m)
      [] ty = "DpConfig" -> DpConfig_encode(version, m)
      [] ty = "VdafTypeVar" -> VdafTypeVar_encode(version, m)
      [] ty = "VdafConfig" -> VdafConfig_encode(version, m)
      [] ty = "TaskConfig" -> TaskConfig_encode(version, m)
      [] ty = "HpkeKemId" -> HpkeKemId_encode(m)
      [] ty = "HpkeKdfId" -> HpkeKdfId_encode(m)
      [] ty = "HpkeAeadId" -> HpkeAeadId_encode(m)
      [] ty = "TransitionFailure" -> TransitionFailure_encode(m)
      [] ty = "TransitionVar" -> TransitionVar_encode(m)

Decode(ty, version, bytes) ==
    CASE ty = "Report" -> Report_decode(bytes)
      [] ty = "ReportShare" -> ReportShare_decode(bytes)
      [] ty = "AggregateInitializeReq" -> AggregateInitializeReq_decode(bytes)
      [] ty = "AggregateContinueReq" -> AggregateContinueReq_decode(bytes)
      [] ty = "AggregateResp" -> AggregateResp_decode(bytes)
      [] ty = "Transition" -> Transition_decode(bytes)
      [] ty = "CollectReq" -> CollectReq_decode(bytes)
      [] ty = "CollectResp" -> CollectResp_decode(bytes)
      [] ty = "AggregateShareReq" -> AggregateShareReq_decode(bytes)
      [] ty = "AggregateShareResp" -> AggregateShareResp_decode(bytes)
      [] ty = "HpkeConfig" -> HpkeConfig_decode(bytes)
      [] ty = "HpkeCiphertext" -> HpkeCiphertext_decode(bytes)
      [] ty = "Interval" -> Interval_decode(bytes)
      [] ty = "Query" -> Query_decode(bytes)
      [] ty = "BatchParameter" -> BatchParameter_decode(bytes)
      [] ty = "QueryConfig" -> QueryConfig_decode(version, bytes)
      [] ty = "DpConfig" -> DpConfig_decode(version, bytes)
      [] ty = "VdafTypeVar" -> VdafTypeVar_decode(version, bytes)
      [] ty = "VdafConfig" -> VdafConfig_decode(version, bytes)
      [] ty = "TaskConfig" -> TaskConfig_decode(version, bytes)
      [] ty = "HpkeKemId" -> HpkeKemId_decode(bytes)
      [] ty = "HpkeKdfId" -> HpkeKdfId_decode(bytes)
      [] ty = "HpkeAeadId" -> HpkeAeadId_decode(bytes)
      [] ty = "TransitionFailure" -> TransitionFailure_decode(bytes)
      [] ty = "TransitionVar" -> TransitionVar_decode(bytes)

\* Decode::get_decoded / get_decoded_with_param: the whole buffer is one message
get_decoded(ty, version, bytes) ==
    Try(Decode(ty, version, bytes), LAMBDA r :
        IF r.rest # <<>> THEN DecErr("BytesLeftOver") ELSE r)

\* the messages of a type that are encoded: empty and non-empty byte fields and
\* lists, every variant
Samples(ty) ==
    LET \* values of the fields
        SampleBytes == {1, 255}
        ByteStrings == UNION {[1..n -> SampleBytes] : n \in 0..MaxVecLen}
        Lists(S) == UNION {[1..n -> S] : n \in 0..MaxItems}
        Fill(n, b) == [i \in 1..n |-> b]
        Ids == {Fill(IdLen, 0), Fill(IdLen, 171)}
        NonceSamples == {Fill(NonceLen, 7)}
        \* 0 and 12_345_678
        Times == {<<0, 0, 0, 0>>, <<0, 0, 188, 24910>>}
        U32s == {<<0, 0>>, <<188, 24910>>, <<65535, 65535>>}

        ExtensionCore == {[typ |-> 0, payload |-> <<>>], [typ |-> 513, payload |-> <<255>>]}
        ReportMetadataSamples ==
            {[time |-> t, nonce |-> n, extensions |-> e] :
                t \in Times, n \in NonceSamples, e \in Lists(ExtensionCore)}
        HpkeCiphertextSamples ==
            {[config_id |-> c, enc |-> e, payload |-> p] :
                c \in {0, 23}, e \in ByteStrings, p \in ByteStrings}
        HpkeCiphertextCore ==
            {[config_id |-> 23, enc |-> <<>>, payload |-> <<>>],
             [config_id |-> 0, enc |-> <<1>>, payload |-> <<255>>]}
        ReportSamples ==
            {[task_id |-> i, metadata |-> m, public_share |-> p, encrypted_input_shares |-> s] :
                i \in Ids, m \in ReportMetadataSamples, p \in ByteStrings,
                s \in Lists(HpkeCiphertextCore)}
        ReportShareSamples ==
            {[metadata |-> m, public_share |-> p, encrypted_input_share |-> s] :
                m \in ReportMetadataSamples, p \in ByteStrings, s \in HpkeCiphertextCore}
        ReportShareCore ==
            {[metadata |-> [time |-> <<0, 0, 188, 24910>>, nonce |-> Fill(NonceLen, 7),
                            extensions |-> e],
              public_share |-> <<1>>,
              encrypted_input_share |-> [config_id |-> 23, enc |-> <<1>>, payload |-> <<255>>]] :
                e \in {<<>>, <<[typ |-> 513, payload |-> <<255>>]>>}}
        BatchParameterSamples ==
            {[var |-> "TimeInterval"]} \cup {[var |-> "FixedSize", batch_id |-> i] : i \in Ids}
        AggregateInitializeReqSamples ==
            {[task_id |-> i, agg_job_id |-> Fill(IdLen, 171), agg_param |-> a,
              batch_param |-> b, report_shares |-> s] :
                i \in Ids, a \in ByteStrings, b \in BatchParameterSamples,
                s \in Lists(ReportShareCore)}
        TransitionVarSamples ==
            {[var |-> "Continued", vdaf_message |-> m] : m \in ByteStrings}
            \cup {[var |-> "Finished"]}
            \cup {[var |-> "Failed", failure |-> TransitionFailures[i]] :
                    i \in DOMAIN TransitionFailures}
        TransitionSamples ==
            {[nonce |-> n, var |-> v] : n \in NonceSamples, v \in TransitionVarSamples}
        TransitionCore ==
            {[nonce |-> Fill(NonceLen, 7), var |-> v] :
                v \in {[var |-> "Continued", vdaf_message |-> <<1>>], [var |-> "Finished"],
                       [var |-> "Failed", failure |-> "ReportReplayed"]}}
        AggregateContinueReqSamples ==
            {[task_id |-> i, agg_job_id |-> Fill(IdLen, 0), transitions |-> t] :
                i \in Ids, t \in Lists(TransitionCore)}
        AggregateRespSamples == {[transitions |-> t] : t \in Lists(TransitionSamples)}
        IntervalSamples == {[start |-> s, duration |-> d] : s \in Times, d \in Times}
        QuerySamples ==
            {[var |-> "TimeInterval", batch_interval |-> i] : i \in IntervalSamples}
            \cup {[var |-> "FixedSize", batch_id |-> i] : i \in Ids}
        CollectReqSamples ==
            {[task_id |-> i, query |-> q, agg_param |-> a] :
                i \in Ids, q \in QuerySamples, a \in ByteStrings}
        CollectRespSamples ==
            {[report_count |-> c, encrypted_agg_shares |-> s] :
                c \in Times, s \in Lists(HpkeCiphertextCore)}
        AggregateShareReqSamples ==
            {[task_id |-> Fill(IdLen, 171), batch_selector |-> q, agg_param |-> a,
              report_count |-> c, checksum |-> Fill(ChecksumLen, 90)] :
                q \in QuerySamples, a \in ByteStrings, c \in Times}
        AggregateShareRespSamples == {[encrypted_agg_share |-> s] : s \in HpkeCiphertextSamples}
        \* NotImplemented(x) is sampled with unknown codes and with the known ones
        HpkeKemIdSamples ==
            {[var |-> "P256HkdfSha256"], [var |-> "X25519HkdfSha256"]}
            \cup {[var |-> "NotImplemented", x |-> x] :
                    x \in {0, KEM_ID_P256_HKDF_SHA256, KEM_ID_X25519_HKDF_SHA256, 65535}}
        HpkeKdfIdSamples ==
            {[var |-> "HkdfSha256"]}
            \cup {[var |-> "NotImplemented", x |-> x] : x \in {KDF_ID_HKDF_SHA256, 2}}
        HpkeAeadIdSamples ==
            {[var |-> "Aes128Gcm"]}
            \cup {[var |-> "NotImplemented", x |-> x] : x \in {AEAD_ID_AES128GCM, 3}}
        HpkeConfigSamples ==
            {[id |-> 23, kem_id |-> k, kdf_id |-> d, aead_id |-> a, public_key |-> p] :
                k \in HpkeKemIdSamples, d \in HpkeKdfIdSamples, a \in HpkeAeadIdSamples,
                p \in ByteStrings}

        \* taskprov: NotImplemented is sampled with unrecognised and with recognised codes
        QueryConfigVarSamples ==
            {[var |-> "TimeInterval"]}
            \cup {[var |-> "FixedSize", max_batch_size |-> m] : m \in U32s}
            \cup {[var |-> "NotImplemented", typ |-> t, param |-> p] :
                    t \in {0, QUERY_TYPE_TIME_INTERVAL, 3, 255}, p \in ByteStrings}
        QueryConfigSamples ==
            {[time_precision |-> <<0, 0, 188, 24910>>, max_batch_query_count |-> 1337,
              min_batch_size |-> <<188, 24910>>, var |-> v] : v \in QueryConfigVarSamples}
        DpConfigSamples ==
            {[var |-> "None"]}
            \cup {[var |-> "NotImplemented", typ |-> t, param |-> p] :
                    t \in {0, DP_MECHANISM_NONE, 255}, p \in ByteStrings}
        VdafTypeVarSamples ==
            {[var |-> "Prio2", dimension |-> d] : d \in U32s}
            \cup {[var |-> "NotImplemented", typ |-> t, param |-> p] :
                    t \in {<<0, 1337>>, VDAF_TYPE_PRIO2, <<65535, 65535>>}, p \in ByteStrings}
        VdafConfigSamples ==
            {c \in {[dp_config |-> d, var |-> v] : d \in DpConfigSamples, v \in VdafTypeVarSamples} :
                \/ c.dp_config.var = "None"
                \/ c.var.var = "Prio2"
                \/ (c.dp_config.param = <<>> /\ c.var.param = <<>>)}
        UrlBytesSamples == {[bytes |-> <<>>], [bytes |-> <<104, 47>>]}
        TaskConfigSamples ==
            {[task_info |-> i, leader_url |-> l, helper_url |-> [bytes |-> <<104>>],
              query_config |-> q, task_expiration |-> <<0, 0, 188, 24910>>, vdaf_config |-> c] :
                i \in ByteStrings, l \in UrlBytesSamples,
                q \in {s \in QueryConfigSamples :
                         s.var.var # "NotImplemented" \/ (s.var.typ = 3 /\ s.var.param = <<>>)},
                c \in {s \in VdafConfigSamples :
                         /\ s.dp_config.var = "None"
                         /\ s.var.var = "NotImplemented" => (s.var.typ = <<0, 1337>> /\ s.var.param = <<>>)
                         /\ s.var.var = "Prio2" => s.var.dimension = <<188, 24910>>}}
    IN
    CASE ty = "Report" -> ReportSamples
      [] ty = "ReportShare" -> ReportShareSamples
      [] ty = "AggregateInitializeReq" -> AggregateInitializeReqSamples
      [] ty = "AggregateContinueReq" -> AggregateContinueReqSamples
      [] ty = "AggregateResp" -> AggregateRespSamples
      [] ty = "Transition" -> TransitionSamples
      [] ty = "CollectReq" -> CollectReqSamples
      [] ty = "CollectResp" -> CollectRespSamples
      [] ty = "AggregateShareReq" -> AggregateShareReqSamples
      [] ty = "AggregateShareResp" -> AggregateShareRespSamples
      [] ty = "HpkeConfig" -> HpkeConfigSamples
      [] ty = "HpkeCiphertext" -> HpkeCiphertextSamples
      [] ty = "Interval" -> IntervalSamples
      [] ty = "Query" -> QuerySamples
      [] ty = "BatchParameter" -> BatchParameterSamples
      [] ty = "QueryConfig" -> QueryConfigSamples
      [] ty = "DpConfig" -> DpConfigSamples
      [] ty = "VdafTypeVar" -> VdafTypeVarSamples
      [] ty = "VdafConfig" -> VdafConfigSamples
      [] ty = "TaskConfig" -> TaskConfigSamples
      [] ty = "HpkeKemId" -> HpkeKemIdSamples
      [] ty = "HpkeKdfId" -> HpkeKdfIdSamples
      [] ty = "HpkeAeadId" -> HpkeAeadIdSamples
      [] ty = "TransitionFailure" -> {TransitionFailures[i] : i \in DOMAIN TransitionFailures}
      [] ty = "TransitionVar" -> TransitionVarSamples

\* byte strings that arrive from a peer, laid out as the decoder of the type
\* reads them.  QueryConfig: a one-byte tag before the fields under Draft02,
\* the fields, one byte, then a body.  HPKE identifiers: a 16-bit code.
\* TransitionFailure: every byte.  TransitionVar: every tag byte, then a body.
\* BatchParameter, Query: a 16-bit tag, then an interval, a batch id or less.
\* TaskConfig: task_info, a list of zero to three URLs under Draft02 or one to
\* three URLs in a row under Draft07, and what follows the URLs.
Wires(ty, version) ==
    LET QueryConfigBodies ==
            {<<>>, <<0, 0>>, <<0, 1, 255>>, u32_encode(<<188, 24910>>),
             <<0, 4>> \o u32_encode(<<188, 24910>>)}
        Codes == (0..40) \cup {255, 256, 4096, 4660, 8192, 65534, 65535}
        VarBodies == {<<>>, <<0>>, <<6>>, <<7>>, <<255>>, <<0, 0, 0, 0>>, <<0, 0, 0, 1, 9>>,
                      <<0, 0, 0, 2, 9>>}
        Tags == {0, 1, 2, 3, 256, 257, 258, 512, 513, 65535}
        QueryBodies == {<<>>, [i \in 1..16 |-> 5], [i \in 1..IdLen |-> 5]}
        url == encode_u16_bytes(<<104>>)
        UrlLists == {<<>>, url, url \o url, url \o url \o url}
        AfterUrls ==
            QueryConfig_encode_fields([time_precision |-> <<0, 0, 188, 24910>>,
                                       max_batch_query_count |-> 1337,
                                       min_batch_size |-> <<188, 24910>>])
            \o <<1>> \o (IF version = "Draft07" THEN <<0, 0>> ELSE <<>>)
            \o u64_encode(<<0, 0, 188, 24910>>)
            \o VdafConfig_encode(version, [dp_config |-> [var |-> "None"],
                                           var |-> [var |-> "Prio2", dimension |-> <<0, 10>>]])
    IN  CASE ty = "QueryConfig" ->
                 {(IF version = "Draft02" THEN <<t1>> ELSE <<>>)
                  \o QueryConfig_encode_fields([time_precision |-> <<0, 0, 188, 24910>>,
                                                max_batch_query_count |-> 1337,
                                                min_batch_size |-> <<188, 24910>>])
                  \o <<t2>> \o body :
                     t1 \in {0, 1, 2, 3}, t2 \in {0, 1, 2, 3}, body \in QueryConfigBodies}
          [] ty \in {"HpkeKemId", "HpkeKdfId", "HpkeAeadId"} -> {u16_encode(c) : c \in Codes}
          [] ty = "TransitionFailure" -> {<<b>> : b \in 0..255}
          [] ty = "TransitionVar" -> {<<tag>> \o body : tag \in 0..255, body \in VarBodies}
          [] ty \in {"BatchParameter", "Query"} ->
                 {u16_encode(tag) \o body : tag \in Tags, body \in QueryBodies}
          [] ty = "TaskConfig" ->
                 {<<1, 9>>
                  \o (IF version = "Draft02" THEN encode_u16_bytes(urls) ELSE urls)
                  \o (IF version = "Draft02" THEN <<1>> ELSE <<>>) \o AfterUrls :
                     urls \in IF version = "Draft02" THEN UrlLists ELSE UrlLists \ {<<>>}}
          [] OTHER -> {}

(***************************************************************************)
(* Runs of the codec: a message is encoded, or a byte string arrives; the  *)
(* bytes may be altered on the way; they are decoded; a decoded value is   *)
(* encoded again.                                                          *)
(***************************************************************************)
CodecEncode(ty, version) ==
    /\ cpc = "idle"
    /\ version \in (IF ty \in TaskprovTypes THEN DapVersions ELSE {""})
    /\ \E m \in Samples(ty) :
           /\ cmsg' = Some(m)
           /\ cwire' = Encode(ty, version, m)
    /\ cpc' = "wire"
    /\ cty' = ty
    /\ cver' = version
    /\ UNCHANGED <<cres, cback>>
    /\ UNCHANGED <<ctrunc, iv, lp, ct, uq, taskVars, replayVars, adminVars>>

CodecReceive(ty, version) ==
    /\ cpc = "idle"
    /\ version \in (IF ty \in TaskprovTypes THEN DapVersions ELSE {""})
    /\ cpc' = "wire"
    /\ cty' = ty
    /\ cver' = version
    /\ cmsg' = NoneOpt
    /\ \E bytes \in Wires(ty, version) : cwire' = bytes
    /\ UNCHANGED <<cres, cback>>
    /\ UNCHANGED <<ctrunc, iv, lp, ct, uq, taskVars, replayVars, adminVars>>

\* one byte of a short encoding is overwritten
CodecTamper ==
    /\ cpc = "wire"
    /\ IsSome(cmsg)
    /\ Len(cwire) <= MaxTamperLen
    /\ \E pos \in DOMAIN cwire, b \in {0, 1, 2} :
           /\ cwire[pos] # b
           /\ cwire' = [cwire EXCEPT ![pos] = b]
    /\ cmsg' = NoneOpt
    /\ UNCHANGED <<cpc, cty, cver, cres, cback>>
    /\ UNCHANGED <<ctrunc, iv, lp, ct, uq, taskVars, replayVars, adminVars>>

\* an encoding loses its last n bytes
CodecTruncate ==
    /\ cpc = "wire"
    /\ IsSome(cmsg)
    /\ \E n \in 1..Len(cwire) : cwire' = SubSeq(cwire, 1, Len(cwire) - n)
    /\ cmsg' = NoneOpt
    /\ ctrunc' = cmsg
    /\ UNCHANGED <<cpc, cty, cver, cres, cback>>
    /\ UNCHANGED <<iv, lp, ct, uq, taskVars, replayVars, adminVars>>

CodecDecode ==
    /\ cpc = "wire"
    /\ cpc' = "decoded"
    /\ cres' = get_decoded(cty, cver, cwire)
    /\ UNCHANGED <<cty, cver, cmsg, cwire, cback>>
    /\ UNCHANGED <<ctrunc, iv, lp, ct, uq, taskVars, replayVars, adminVars>>

CodecReencode ==
    /\ cpc = "decoded"
    /\ IsOk(cres)
    /\ cpc' = "reencoded"
    /\ cback' = Some(Encode(cty, cver, Val(cres)))
    /\ UNCHANGED <<cty, cver, cmsg, cwire, cres>>
    /\ UNCHANGED <<ctrunc, iv, lp, ct, uq, taskVars, replayVars, adminVars>>

CodecReset ==
    /\ cpc \in {"decoded", "reencoded"}
    /\ cpc' = "idle"
    /\ cty' = ""
    /\ cver' = ""
    /\ cmsg' = NoneOpt
    /\ cwire' = <<>>
    /\ cres' = NoResult
    /\ cback' = NoneOpt
    /\ ctrunc' = NoneOpt
    /\ UNCHANGED <<iv, lp, ct, uq, taskVars, replayVars, adminVars>>

(***************************************************************************)
(* Calls of the validation helper and of the length-prefixing encoders.    *)
(* A payload is given by its length, a usize in four 16-bit limbs, and by  *)
(* its bytes, or its first bytes when it is longer than the model's        *)
(* buffers.                                                                *)
(***************************************************************************)
IsValidFor(start, duration, min_batch_duration) ==
    /\ iv' = [pc |-> "done",
              self |-> [start |-> start, duration |-> duration],
              task_config |-> [min_batch_duration |-> min_batch_duration],
              result |-> is_valid_for([start |-> start, duration |-> duration],
                                      [min_batch_duration |-> min_batch_duration])]
    /\ UNCHANGED <<cpc, cty, cver, cmsg, cwire, cres, cback, ctrunc, lp, ct, uq>>
    /\ UNCHANGED <<taskVars, replayVars, adminVars>>

EncodeBytes(width, len, data) ==
    /\ LET prefix == length_prefix(width, len)
           whole == len = <<0, 0>> \o U32OfLen(Len(data))
       IN  lp' = [pc |-> "done", width |-> width, len |-> len, data |-> data,
                   panic |-> prefix.panic,
                   bytes |-> IF prefix.panic THEN <<>>
                             ELSE IF ~whole THEN prefix.bytes \o data
                             ELSE IF width = 2 THEN encode_u16_bytes(data)
                             ELSE encode_u32_bytes(data)]
    /\ UNCHANGED <<cpc, cty, cver, cmsg, cwire, cres, cback, ctrunc, iv, ct, uq>>
    /\ UNCHANGED <<taskVars, replayVars, adminVars>>

\* one call of each helper is followed
ConstantTimeEq(left, right) ==
    /\ ct.pc = "idle"
    /\ ct' = [pc |-> "done", left |-> left, right |-> right,
              result |-> constant_time_eq(left, right)]
    /\ UNCHANGED <<cpc, cty, cver, cmsg, cwire, cres, cback, ctrunc, iv, lp, uq>>
    /\ UNCHANGED <<taskVars, replayVars, adminVars>>

\* Query::unwrap_interval: the batch interval of a TimeInterval query, and
\* panic!("TODO(issue #100)") on any other query
UnwrapInterval(self) ==
    /\ uq.pc = "idle"
    /\ uq' = [pc |-> "done", self |-> self,
              result |-> IF self.var = "TimeInterval"
                         THEN [panic |-> FALSE, value |-> Some(self.batch_interval)]
                         ELSE [panic |-> TRUE, value |-> NoneOpt]]
    /\ UNCHANGED <<cpc, cty, cver, cmsg, cwire, cres, cback, ctrunc, iv, lp, ct>>
    /\ UNCHANGED <<taskVars, replayVars, adminVars>>
(***************************************************************************)
(* internal_add_hpke_config and internal_delete_all (roles/mod.rs,         *)
(* test_utils).  A receiver is its config (of which the id matters) and    *)
(* its private key.                                                        *)
(***************************************************************************)
ErrReceiverExists == "receiver config with id already exists"

\* faulty variant: no stored receiver is ever found to have the new id
receiver_exists_never(config_list, new_receiver) == FALSE

\* config_list.iter().any(|receiver| new_receiver.config.id == receiver.config.id)
receiver_exists(config_list, new_receiver) ==
    \E i \in DOMAIN config_list : new_receiver.config.id = config_list[i].config.id

\* the call starts: read the version's set through the cache, look for the
\* new receiver's id, push the receiver
AddHpkeGet(c, version, new_receiver, remoteFails) ==
    /\ hp[c].pc \in {"idle", "done"}
    /\ LET got == get_cloned(cacheHpkeReceiverConfigSet[version],
                             kvHpkeReceiverConfigSet[version], remoteFails, FALSE)
           config_list == IF IsSome(got.res.opt) THEN Unwrap(got.res.opt) ELSE <<>>
           this == [version |-> version, new_receiver |-> new_receiver]
       IN  /\ cacheHpkeReceiverConfigSet' =
                  [cacheHpkeReceiverConfigSet EXCEPT ![version] = got.cache]
           /\ hp' = [hp EXCEPT ![c] =
                       IF got.res = KvErr
                       THEN this @@ [pc |-> "done", config_list |-> <<>>,
                                     result |-> "failed to get hpke config"]
                       ELSE IF receiver_exists(config_list, new_receiver)
                       THEN this @@ [pc |-> "done", config_list |-> config_list,
                                     result |-> ErrReceiverExists]
                       ELSE this @@ [pc |-> "put",
                                     config_list |-> Append(config_list, new_receiver),
                                     result |-> None]]
    /\ UNCHANGED <<kvHpkeReceiverConfigSet, da, test_leader_state>>
    /\ UNCHANGED <<taskVars, replayVars, codecVars>>

\* put of the extended set; the cache entry of the key is overwritten or
\* dropped by the write
AddHpkePut(c, kvFails, writeThrough) ==
    /\ hp[c].pc = "put"
    /\ IF kvFails
       THEN /\ hp' = [hp EXCEPT ![c].pc = "done", ![c].result = "failed to put hpke config"]
            /\ UNCHANGED <<kvHpkeReceiverConfigSet, cacheHpkeReceiverConfigSet>>
       ELSE /\ hp' = [hp EXCEPT ![c].pc = "done", ![c].result = "Ok"]
            /\ kvHpkeReceiverConfigSet' =
                   put(kvHpkeReceiverConfigSet, hp[c].version, hp[c].config_list).map
            /\ cacheHpkeReceiverConfigSet' =
                   [cacheHpkeReceiverConfigSet EXCEPT ![hp[c].version] =
                       IF writeThrough THEN CacheFound(hp[c].config_list) ELSE CacheAbsent]
    /\ UNCHANGED <<da, test_leader_state>>
    /\ UNCHANGED <<taskVars, replayVars, codecVars>>

\* a cached set reaches its TTL
HpkeCacheExpire(version) ==
    /\ cacheHpkeReceiverConfigSet[version] # CacheAbsent
    /\ cacheHpkeReceiverConfigSet' = [cacheHpkeReceiverConfigSet EXCEPT ![version] = CacheAbsent]
    /\ UNCHANGED <<kvHpkeReceiverConfigSet, hp, da, test_leader_state>>
    /\ UNCHANGED <<taskVars, replayVars, codecVars>>

\* a request of the test deployment leaves work in the leader state
LeaderStatePut(t) ==
    /\ da.pc # "purge"
    /\ t \notin test_leader_state
    /\ test_leader_state' = test_leader_state \cup {t}
    /\ UNCHANGED <<kvHpkeReceiverConfigSet, cacheHpkeReceiverConfigSet, hp, da>>
    /\ UNCHANGED <<taskVars, replayVars, codecVars>>

\* internal_delete_all up to the purge request: the leader state is emptied
\* and the cache replaced by an empty one; `dropped` remembers whether the
\* two resets discarded anything
DeleteAllStart ==
    /\ da.pc \in {"idle", "done"}
    /\ da' = [pc |-> "purge", result |-> None,
              dropped |-> [leader |-> test_leader_state # {},
                           cache |-> \/ cacheGlobalOverride.state = "found"
                                     \/ \E v \in DapVersions :
                                            cacheHpkeReceiverConfigSet[v].state = "found"]]
    /\ test_leader_state' = {}
    /\ cacheGlobalOverride' = CacheAbsent
    /\ cacheHpkeReceiverConfigSet' = [v \in DapVersions |-> CacheAbsent]
    /\ UNCHANGED <<kvHpkeReceiverConfigSet, hp>>
    /\ UNCHANGED <<kvGlobalOverride, rp, replaySeen, finished, insecureFinish, reports>>
    /\ UNCHANGED <<taskVars, codecVars>>

\* the purge request: it cannot be sent, the proxy answers non-2xx, or the
\* proxy removes every key
DeleteAllPurge(outcome) ==
    /\ da.pc = "purge"
    /\ IF outcome = "purged"
       THEN /\ da' = [da EXCEPT !.pc = "done", !.result = "Ok"]
            /\ kvLeaderBearerToken' = [t \in TaskIds |-> NoneOpt]
            /\ kvCollectorBearerToken' = [t \in TaskIds |-> NoneOpt]
            /\ kvTaskConfig' = [t \in TaskIds |-> NoneOpt]
            /\ kvGlobalOverride' = NoneOpt
            /\ kvHpkeReceiverConfigSet' = [v \in DapVersions |-> NoneOpt]
            /\ replaySeen' = {}
       ELSE /\ da' = [da EXCEPT !.pc = "done",
                                 !.result = IF outcome = "not sent"
                                            THEN "failed to send delete request to storage proxy"
                                            ELSE "failed to clear storage proxy"]
            /\ UNCHANGED <<kvLeaderBearerToken, kvCollectorBearerToken, kvTaskConfig,
                           kvGlobalOverride, kvHpkeReceiverConfigSet, replaySeen>>
    /\ UNCHANGED <<cacheHpkeReceiverConfigSet, hp, test_leader_state>>
    /\ UNCHANGED <<cacheGlobalOverride, rp, finished, insecureFinish, reports>>
    /\ UNCHANGED <<call, started, succeeded, codecVars>>

(***************************************************************************)
(* Specifications                                                          *)
(***************************************************************************)
Init ==
    /\ kvLeaderBearerToken = [t \in TaskIds |-> NoneOpt]
    /\ kvCollectorBearerToken = [t \in TaskIds |-> NoneOpt]
    /\ kvTaskConfig = [t \in TaskIds |-> NoneOpt]
    /\ kvGlobalOverride = NoneOpt
    /\ cacheGlobalOverride = CacheAbsent
    /\ call = [c \in Callers |-> IdleCall]
    /\ started = [t \in TaskIds |-> 0]
    /\ succeeded = [t \in TaskIds |-> 0]
    /\ rp = [c \in Callers |-> IdleReport]
    /\ replaySeen = {}
    /\ finished = [p \in Pairs |-> 0]
    /\ insecureFinish = [p \in Pairs |-> FALSE]
    /\ reports = 0
    /\ cpc = "idle"
    /\ cty = ""
    /\ cver = ""
    /\ cmsg = NoneOpt
    /\ cwire = <<>>
    /\ cres = NoResult
    /\ cback = NoneOpt
    /\ ctrunc = NoneOpt
    /\ ct = [pc |-> "idle", left |-> <<>>, right |-> <<>>,
             result |-> [value |-> FALSE, compared |-> 0]]
    /\ uq = [pc |-> "idle", self |-> None, result |-> [panic |-> FALSE, value |-> NoneOpt]]
    /\ iv = [pc |-> "idle", self |-> None, task_config |-> None, result |-> None]
    /\ lp = [pc |-> "idle", width |-> 0, len |-> <<>>, data |-> <<>>, panic |-> FALSE,
              bytes |-> <<>>]
    /\ kvHpkeReceiverConfigSet = [v \in DapVersions |-> NoneOpt]
    /\ cacheHpkeReceiverConfigSet = [v \in DapVersions |-> CacheAbsent]
    /\ hp = [c \in Callers |-> [pc |-> "idle", version |-> None, new_receiver |-> None,
                                 config_list |-> <<>>, result |-> None]]
    /\ da = [pc |-> "idle", result |-> None, dropped |-> [leader |-> FALSE, cache |-> FALSE]]
    /\ test_leader_state = {}

TaskNext ==
    \/ \E c \in Callers, cmd \in ConcurrentCommands, kvFails \in BOOLEAN :
           AddTaskLeaderToken(c, cmd, kvFails)
    \/ \E c \in Callers, kvFails \in BOOLEAN : AddTaskCollectorToken(c, kvFails)
    \/ \E c \in Callers, kvFails \in BOOLEAN : AddTaskConfig(c, kvFails)
    \/ \E c \in Callers : AddTaskReturn(c)

ReplayNext ==
    \/ \E opt \in {NoneOpt, Some(TRUE), Some(FALSE)} : SetSkipReplayProtection(opt)
    \/ CacheExpire
    \/ \E c \in Callers, p \in Pairs, remoteFails \in BOOLEAN :
           ReportResolve(c, p[1], p[2], remoteFails)
    \/ \E c \in Callers : ReportCheckReplay(c)
    \/ \E c \in Callers, prepOk \in BOOLEAN : ReportFinish(c, prepOk)
    \/ \E c \in Callers : ReportReturn(c)

\* one handler serving requests one after the other, over every command
TaskSeqNext ==
    \/ \E cmd \in Commands, kvFails \in BOOLEAN : AddTaskLeaderToken(1, cmd, kvFails)
    \/ \E kvFails \in BOOLEAN : AddTaskCollectorToken(1, kvFails)
    \/ \E kvFails \in BOOLEAN : AddTaskConfig(1, kvFails)
    \/ AddTaskReturn(1)

TaskSeqSpec == Init /\ [][TaskSeqNext]_vars

\* concurrent task-configuration requests
TaskSpec == Init /\ [][TaskNext]_vars

\* report processing alone
ReplaySpec == Init /\ [][ReplayNext]_vars

\* the wire codec alone
CodecNext ==
    \/ \E ty \in DapMessageTypes \cup TaskprovTypes \cup EnumTypes,
          version \in DapVersions \cup {""} : CodecEncode(ty, version)
    \/ \E ty \in DapMessageTypes \cup TaskprovTypes \cup EnumTypes,
          version \in DapVersions \cup {""} : CodecReceive(ty, version)
    \/ CodecTamper
    \/ CodecTruncate
    \/ CodecDecode
    \/ CodecReencode
    \/ CodecReset

CodecSpec == Init /\ [][CodecNext]_vars

\* internal_add_hpke_config requests one after the other; cache entries expire
HpkeNext ==
    \/ \E version \in DapVersions, id \in {7, 23}, key \in {"k1", "k2"}, remoteFails \in BOOLEAN :
           AddHpkeGet(1, version, [config |-> [id |-> id], private_key |-> key], remoteFails)
    \/ \E kvFails \in BOOLEAN, writeThrough \in BOOLEAN : AddHpkePut(1, kvFails, writeThrough)
    \/ \E version \in DapVersions : HpkeCacheExpire(version)

HpkeSpec == Init /\ [][HpkeNext]_vars

\* internal_delete_all among the requests of one process: task creation,
\* report processing, HPKE configuration
\* internal_add_hpke_config requests served concurrently, for one version
HpkeConcNext ==
    \/ \E c \in Callers, id \in {7, 23} :
           AddHpkeGet(c, "Draft07", [config |-> [id |-> id], private_key |-> "k1"], FALSE)
    \/ \E c \in Callers, writeThrough \in BOOLEAN : AddHpkePut(c, FALSE, writeThrough)
    \/ HpkeCacheExpire("Draft07")

HpkeConcSpec == Init /\ [][HpkeConcNext]_vars

PurgeNext ==
    \/ DeleteAllStart
    \/ \E outcome \in {"purged", "not sent", "non-2xx"} : DeleteAllPurge(outcome)
    \/ LeaderStatePut("t1")
    \/ AddTaskLeaderToken(1, LeaderCommand("t1", "I-am-the-leader"), FALSE)
    \/ AddTaskCollectorToken(1, FALSE)
    \/ AddTaskConfig(1, FALSE)
    \/ AddTaskReturn(1)
    \/ SetSkipReplayProtection(Some(TRUE))
    \/ \E remoteFails \in BOOLEAN : ReportResolve(1, "t1", "n1", remoteFails)
    \/ AddHpkeGet(1, "Draft07", [config |-> [id |-> 23], private_key |-> "k1"], FALSE)
    \/ AddHpkePut(1, FALSE, TRUE)

PurgeSpec == Init /\ [][PurgeNext]_vars

\* the value layer: interval validation and length-prefixed byte strings
ValueNext ==
    \/ \E start \in {0, 1800, 3600, 5400}, duration \in {0, 1800, 3600, 7200},
          min_batch_duration \in {0, 1, 1800, 3600} :
           IsValidFor(start, duration, min_batch_duration)
    \/ \E width \in {2, 4}, data \in {<<>>, <<7>>, <<7, 8>>},
          len \in {<<0, 0, 0, 65535>>, <<0, 0, 1, 0>>, <<0, 0, 1, 5>>, <<0, 0, 65535, 65535>>,
                   <<0, 1, 0, 0>>, <<1, 0, 0, 0>>, <<65535, 65535, 65535, 65535>>} :
           \/ EncodeBytes(width, <<0, 0, 0, Len(data)>>, data)
           \/ data = <<7, 8>> /\ EncodeBytes(width, len, data)

ValueSpec == Init /\ [][ValueNext]_vars

\* the helpers of messages.rs: byte comparison and the interval of a query
HelperNext ==
    \/ \E left, right \in UNION {[1..n -> {0, 1, 128, 255}] : n \in 0..MaxCmpLen} :
           ConstantTimeEq(left, right)
    \/ \E start \in {<<0, 0, 0, 0>>, <<0, 0, 188, 24910>>}, batch_id \in {0, 5} :
           \/ UnwrapInterval([var |-> "TimeInterval",
                              batch_interval |-> [start |-> start,
                                                  duration |-> <<0, 0, 0, 3600>>]])
           \/ UnwrapInterval([var |-> "FixedSize", batch_id |-> [i \in 1..IdLen |-> batch_id]])

HelperSpec == Init /\ [][HelperNext]_vars

Next == TaskNext \/ TaskSeqNext \/ ReplayNext \/ CodecNext \/ HpkeNext \/ PurgeNext \/ ValueNext \/ HelperNext \/ HpkeConcNext

Spec == Init /\ [][Next]_vars

(***************************************************************************)
(* Properties                                                              *)
(***************************************************************************)

\* C1: fetch_replay_protection_override returns InsecureDisabled if and only
\* if the read of SkipReplayProtection succeeds and yields true; a failed read,
\* a missing key and a stored false all give Enabled, and the result is always
\* one of the two policies (no error reaches the caller).
C1_FailSafeOverride ==
    \A c \in Callers :
        rp[c].pc # "idle" =>
            /\ rp[c].replay_protection \in {"Enabled", "InsecureDisabled"}
            /\ rp[c].replay_protection = "InsecureDisabled" <=> rp[c].read = KvOk(Some(TRUE))

\* a failed read resolved to Enabled while another handler resolved a stored
\* true to InsecureDisabled
C1_Witness ==
    \E c, d \in Callers :
        /\ rp[c].pc # "idle" /\ rp[c].read = KvErr /\ rp[c].replay_protection = "Enabled"
        /\ rp[d].pc # "idle" /\ rp[d].read = KvOk(Some(TRUE))
        /\ rp[d].replay_protection = "InsecureDisabled"

\* C2 as stated: the first call with a valid command and a fresh task_id
\* succeeds, and a later call with the same task_id fails with "config already
\* exists" (storage failures apart).
C2_LaterCallConfigExists ==
    \A c \in Callers :
        call[c].pc = "done" /\ call[c].result # ErrStorage =>
            /\ call[c].first /\ ValidCommand(call[c].cmd) => call[c].result = "Ok"
            /\ call[c].afterOk /\ ValidCommand(call[c].cmd) => call[c].result = ErrConfigExists

\* C2 amended: internal_add_task succeeds at most once per task_id.  The first
\* call with a valid command and a fresh task_id succeeds when its KV
\* operations succeed; a call started after a success for the same task_id
\* never succeeds, and when its command parses and the store answers it fails
\* with "token already exists ... (leader)", the conflict of the first write.
C2_AddTaskOnce ==
    /\ \A t \in TaskIds : succeeded[t] <= 1
    /\ \A c \in Callers :
        call[c].pc = "done" =>
            /\ call[c].first /\ ValidCommand(call[c].cmd) /\ call[c].result # ErrStorage
                   => call[c].result = "Ok"
            /\ call[c].afterOk => call[c].result # "Ok"
            /\ call[c].afterOk /\ ParseCommand(call[c].cmd) = "ok" /\ call[c].result # ErrStorage
                   => call[c].result = ErrLeaderTokenExists

\* a valid command sent again after its task was created is refused at the
\* leader token
C2_Witness ==
    \E c \in Callers :
        /\ call[c].pc = "done" /\ call[c].afterOk /\ ValidCommand(call[c].cmd)
        /\ call[c].result = ErrLeaderTokenExists
        /\ succeeded[call[c].cmd.task_id] = 1

\* C3: when the only calls ever made for a task_id are N >= 2 calls carrying
\* the same valid command and no KV operation failed, then under every
\* interleaving exactly one of them returned Ok, the others returned the
\* conflict error, and the TaskConfig of that command is stored.
C3_ExactlyOneCreates ==
    \A t \in TaskIds :
        LET cs == {c \in Callers : call[c].pc = "done" /\ call[c].cmd.task_id = t}
        IN  ( /\ Cardinality(cs) >= 2
              /\ Cardinality(cs) = started[t]
              /\ \A c, d \in cs : call[c].cmd = call[d].cmd
              /\ \A c \in cs : ValidCommand(call[c].cmd) /\ call[c].result # ErrStorage )
            => /\ Cardinality({c \in cs : call[c].result = "Ok"}) = 1
               /\ \A c \in cs : call[c].result \in {"Ok", ErrLeaderTokenExists}
               /\ \A c \in cs : kvTaskConfig[t] = Some(DapTaskConfigOf(call[c].cmd))

\* two calls with the same valid command overlapped: the one that started
\* while the other was in flight lost
C3_Witness ==
    \E c, d \in Callers :
        /\ c # d
        /\ call[c].pc = "done" /\ call[d].pc = "done"
        /\ call[c].cmd = call[d].cmd /\ ValidCommand(call[c].cmd)
        /\ started[call[c].cmd.task_id] = 2
        /\ call[c].result = "Ok"
        /\ call[d].result = ErrLeaderTokenExists /\ call[d].overlapped

\* C4: write-once.  No step changes a stored LeaderBearerToken,
\* CollectorBearerToken or TaskConfig, and once the TaskConfig of a task_id is
\* stored none of the three keys of that task_id changes any more.
C4_WriteOnce ==
    [][\A t \in TaskIds :
          /\ IsSome(kvLeaderBearerToken[t]) => kvLeaderBearerToken'[t] = kvLeaderBearerToken[t]
          /\ IsSome(kvCollectorBearerToken[t])
                 => kvCollectorBearerToken'[t] = kvCollectorBearerToken[t]
          /\ IsSome(kvTaskConfig[t]) =>
                 /\ kvTaskConfig'[t] = kvTaskConfig[t]
                 /\ kvLeaderBearerToken'[t] = kvLeaderBearerToken[t]
                 /\ kvCollectorBearerToken'[t] = kvCollectorBearerToken[t]]_vars

\* a valid command with another token and another query configuration was
\* sent for a task that exists, and the stored values are those of the first
C4_Witness ==
    \E c \in Callers :
        LET t == call[c].cmd.task_id
        IN  /\ call[c].pc = "done" /\ call[c].afterOk /\ ValidCommand(call[c].cmd)
            /\ IsSome(kvTaskConfig[t])
            /\ kvTaskConfig[t] # Some(DapTaskConfigOf(call[c].cmd))
            /\ kvLeaderBearerToken[t] # Some(call[c].cmd.leader_authentication_token)

\* C5: replay protection.  A report whose (task_id, nonce) was already seen is
\* rejected with ReportReplayed unless the SkipReplayProtection read at its
\* check yielded true, and a pair has more than one Finished transition only
\* if one of them was persisted under such a read.
C5_ReplayRejected ==
    /\ \A c \in Callers :
        ( /\ rp[c].pc \in {"prepared", "done"}
          /\ rp[c].seenBefore
          /\ rp[c].read # KvOk(Some(TRUE)) )
        => rp[c].pc = "done" /\ rp[c].outcome = "Failed(ReportReplayed)"
    /\ \A p \in Pairs : finished[p] <= 1 \/ insecureFinish[p]

\* a report was rejected as a replay of a pair with a persisted Finished
\* transition, although the override key could not be read
C5_Witness ==
    \E c \in Callers :
        /\ rp[c].pc = "done" /\ rp[c].outcome = "Failed(ReportReplayed)"
        /\ rp[c].read = KvErr
        /\ finished[<<rp[c].task_id, rp[c].nonce>>] = 1

\* C6: round trip.  For every message type of messages.rs and every
\* well-formed message m, decoding the encoding of m consumes all of it and
\* yields m.  An HPKE identifier is well formed when NotImplemented carries a
\* code that has no named variant.
C6_RoundTrip ==
    ( /\ cpc \in {"decoded", "reencoded"}
      /\ IsSome(cmsg)
      /\ cty \in DapMessageTypes
      /\ cty = "HpkeConfig" =>
            LET c == Unwrap(cmsg)
            IN  /\ c.kem_id.var = "NotImplemented" =>
                       c.kem_id.x \notin {KEM_ID_P256_HKDF_SHA256, KEM_ID_X25519_HKDF_SHA256}
                /\ c.kdf_id.var = "NotImplemented" => c.kdf_id.x # KDF_ID_HKDF_SHA256
                /\ c.aead_id.var = "NotImplemented" => c.aead_id.x # AEAD_ID_AES128GCM )
    => cres = DecOk(Unwrap(cmsg), <<>>)

\* a Report with an extension, a public share and an encrypted input share
\* came back from its encoding
C6_Witness ==
    /\ cpc = "decoded"
    /\ cty = "Report"
    /\ IsSome(cmsg)
    /\ Len(Unwrap(cmsg).metadata.extensions) > 0
    /\ Len(Unwrap(cmsg).public_share) > 0
    /\ Len(Unwrap(cmsg).encrypted_input_shares) > 0
    /\ cres = DecOk(Unwrap(cmsg), <<>>)

\* C7: canonical encoding.  Whenever a byte string decodes (all of it read),
\* for any message type and, for the taskprov types, either version, encoding
\* the decoded value gives back exactly that byte string.
C7_CanonicalEncoding ==
    cpc = "reencoded" => cback = Some(cwire)

\* C8: version-gated decoding of unimplemented variants.  A QueryConfig,
\* DpConfig, VdafTypeVar or VdafConfig holding NotImplemented with a type code
\* the decoder does not recognise comes back unchanged (typ and param) from its
\* Draft07 encoding, and decoding its Draft02 encoding fails with
\* UnexpectedValue.
C8_UnimplementedVersionGate ==
    LET UnrecQ(q) == /\ q.var.var = "NotImplemented"
                     /\ q.var.typ \notin {QUERY_TYPE_TIME_INTERVAL, QUERY_TYPE_FIXED_SIZE}
        UnrecD(d) == d.var = "NotImplemented" /\ d.typ # DP_MECHANISM_NONE
        UnrecV(v) == v.var = "NotImplemented" /\ v.typ # VDAF_TYPE_PRIO2
        Holds(ty, m) ==
            CASE ty = "QueryConfig" -> UnrecQ(m)
              [] ty = "DpConfig" -> UnrecD(m)
              [] ty = "VdafTypeVar" -> UnrecV(m)
              [] ty = "VdafConfig" ->
                     /\ UnrecD(m.dp_config) \/ UnrecV(m.var)
                     /\ m.dp_config.var = "None" \/ UnrecD(m.dp_config)
                     /\ m.var.var = "Prio2" \/ UnrecV(m.var)
              [] OTHER -> FALSE
    IN  ( /\ cpc \in {"decoded", "reencoded"}
          /\ IsSome(cmsg)
          /\ Holds(cty, Unwrap(cmsg)) )
        => IF cver = "Draft07" THEN cres = DecOk(Unwrap(cmsg), <<>>)
           ELSE cres = DecErr("UnexpectedValue")

\* a VdafConfig with an unimplemented VDAF type and a non-empty param came
\* back unchanged from its Draft07 encoding
C8_Witness ==
    /\ cpc = "decoded"
    /\ cty = "VdafConfig"
    /\ cver = "Draft07"
    /\ IsSome(cmsg)
    /\ Unwrap(cmsg).var.var = "NotImplemented"
    /\ Unwrap(cmsg).var.typ = <<0, 1337>>
    /\ Unwrap(cmsg).var.param # <<>>
    /\ cres = DecOk(Unwrap(cmsg), <<>>)

\* C9: in both versions, a QueryConfig with var TimeInterval or FixedSize, the
\* DpConfig None, and a VdafConfig with dp_config None and var Prio2 come back
\* unchanged from their encoding.
C9_ImplementedRoundTrip ==
    ( /\ cpc \in {"decoded", "reencoded"}
      /\ IsSome(cmsg)
      /\ \/ cty = "QueryConfig" /\ Unwrap(cmsg).var.var \in {"TimeInterval", "FixedSize"}
         \/ cty = "DpConfig" /\ Unwrap(cmsg).var = "None"
         \/ /\ cty = "VdafConfig"
            /\ Unwrap(cmsg).dp_config.var = "None"
            /\ Unwrap(cmsg).var.var = "Prio2" )
    => cres = DecOk(Unwrap(cmsg), <<>>)

\* C10: the query-type tag of an encoded QueryConfig sits before the three
\* fixed fields under Draft02 and after min_batch_size under Draft07, and the
\* version's decoder takes its tag from that offset, reading as many bytes as
\* the encoder wrote there and getting the tag written.
C10_TagPositionAndWidth ==
    (cpc = "wire" /\ cty = "QueryConfig" /\ IsSome(cmsg)) =>
        LET q == Unwrap(cmsg)
            tag == QueryConfig_encode_query_type(q)
            fields == QueryConfig_encode_fields(q)
            pos == IF cver = "Draft02" THEN 0 ELSE Len(fields)
            head == QueryConfig_decode_head(cver, cwire)
        IN  /\ SubSeq(cwire, pos + 1, pos + Len(tag)) = tag
            /\ cver = "Draft02" => SubSeq(cwire, Len(tag) + 1, Len(tag) + Len(fields)) = fields
            /\ cver = "Draft07" => SubSeq(cwire, 1, Len(fields)) = fields /\ pos = Len(fields)
            /\ IsOk(head)
            /\ Val(head).tag_pos = pos
            /\ Val(head).tag_width = Len(tag)
            /\ u8_encode(Val(head).query_type) = tag

\* C11: internal_add_hpke_config, in calls that do not overlap, returns an
\* error and leaves the stored set as it is when a receiver with the new
\* receiver's config.id is in the version's set, and otherwise appends the
\* new receiver to that set; no version's set ever holds two receivers with
\* the same config.id.
C11_AddHpkeConfig ==
    /\ [](\A v \in DapVersions :
            LET s == IF IsSome(kvHpkeReceiverConfigSet[v])
                     THEN Unwrap(kvHpkeReceiverConfigSet[v]) ELSE <<>>
            IN  \A i, j \in DOMAIN s : s[i].config.id = s[j].config.id => i = j)
    /\ [][LET v == hp'[1].version
              s == IF IsSome(kvHpkeReceiverConfigSet[v])
                   THEN Unwrap(kvHpkeReceiverConfigSet[v]) ELSE <<>>
              present == \E i \in DOMAIN s : s[i].config.id = hp'[1].new_receiver.config.id
          IN  /\ (hp[1].pc # "put" /\ hp'[1] # hp[1] /\ present) =>
                     /\ hp'[1].pc = "done"
                     /\ hp'[1].result \in {ErrReceiverExists, "failed to get hpke config"}
                     /\ kvHpkeReceiverConfigSet' = kvHpkeReceiverConfigSet
              /\ (hp[1].pc # "put" /\ hp'[1] # hp[1] /\ ~present) => hp'[1].result # ErrReceiverExists
              /\ (hp[1].pc = "put" /\ hp'[1].result = "Ok") =>
                     /\ ~present
                     /\ kvHpkeReceiverConfigSet' =
                            [kvHpkeReceiverConfigSet EXCEPT ![v] = Some(Append(s, hp[1].new_receiver))]
              /\ (hp[1].pc = "put" /\ hp'[1].pc = "done" /\ hp'[1].result # "Ok") =>
                     kvHpkeReceiverConfigSet' = kvHpkeReceiverConfigSet]_vars

\* a second receiver with a stored id was refused while the set held two receivers
C11_Witness ==
    /\ hp[1].pc = "done"
    /\ hp[1].result = ErrReceiverExists
    /\ IsSome(kvHpkeReceiverConfigSet[hp[1].version])
    /\ Len(Unwrap(kvHpkeReceiverConfigSet[hp[1].version])) = 2
    /\ \E i \in {1, 2} :
           /\ Unwrap(kvHpkeReceiverConfigSet[hp[1].version])[i].config.id = hp[1].new_receiver.config.id
           /\ Unwrap(kvHpkeReceiverConfigSet[hp[1].version])[i] # hp[1].new_receiver

\* C12: when internal_delete_all returns Ok the leader state of the test
\* deployment is empty, the in-process cache holds no value (at most the
\* remembered absence of a key) and the store holds no key, so that every
\* task_id can be added again; when the purge request
\* cannot be sent or is answered non-2xx the call returns a fatal error.
C12_DeleteAll ==
    [][(da.pc = "purge" /\ da'.pc = "done") =>
          IF da'.result = "Ok"
          THEN /\ test_leader_state' = {}
               /\ cacheGlobalOverride'.state # "found"
               /\ \A v \in DapVersions : cacheHpkeReceiverConfigSet'[v].state # "found"
               /\ \A t \in TaskIds :
                      /\ kvLeaderBearerToken'[t] = NoneOpt
                      /\ kvCollectorBearerToken'[t] = NoneOpt
                      /\ kvTaskConfig'[t] = NoneOpt
               /\ kvGlobalOverride' = NoneOpt
               /\ \A v \in DapVersions : kvHpkeReceiverConfigSet'[v] = NoneOpt
          ELSE da'.result \in {"failed to send delete request to storage proxy",
                               "failed to clear storage proxy"}]_vars

\* C13: every 16-bit code decodes as an HpkeKemId, an HpkeKdfId and an
\* HpkeAeadId: 0x0010 and 0x0020 (KEM), 0x0001 (KDF) and 0x0001 (AEAD) give
\* the named variant, every other code c gives NotImplemented(c), and the
\* decoded value encodes to the two bytes of c.
C13_HpkeCodepoints ==
    (cpc \in {"decoded", "reencoded"} /\ Len(cwire) = 2
     /\ cty \in {"HpkeKemId", "HpkeKdfId", "HpkeAeadId"}) =>
        LET c == cwire[1] * 256 + cwire[2]
            expected ==
                CASE cty = "HpkeKemId" /\ c = 16 -> [var |-> "P256HkdfSha256"]
                  [] cty = "HpkeKemId" /\ c = 32 -> [var |-> "X25519HkdfSha256"]
                  [] cty = "HpkeKdfId" /\ c = 1 -> [var |-> "HkdfSha256"]
                  [] cty = "HpkeAeadId" /\ c = 1 -> [var |-> "Aes128Gcm"]
                  [] OTHER -> [var |-> "NotImplemented", x |-> c]
        IN  /\ cres = DecOk(expected, <<>>)
            /\ cpc = "reencoded" => cback = Some(cwire)

\* the KEM code 0x1234 arrived, was decoded to NotImplemented(0x1234) and
\* encoded again
C13_Witness ==
    /\ cpc = "reencoded"
    /\ cty = "HpkeKemId"
    /\ ~IsSome(cmsg)
    /\ cwire = <<18, 52>>
    /\ cres = DecOk([var |-> "NotImplemented", x |-> 4660], <<>>)
    /\ cback = Some(<<18, 52>>)

\* C14 as stated: every HpkeKemId, HpkeKdfId and HpkeAeadId value v, also
\* NotImplemented(x) with x the code of a named variant, and every HpkeConfig
\* built from such values, decodes from its encoding to itself.
C14_HpkeValueRoundTrip ==
    (cpc \in {"decoded", "reencoded"} /\ IsSome(cmsg)
     /\ cty \in {"HpkeKemId", "HpkeKdfId", "HpkeAeadId", "HpkeConfig"}) =>
        cres = DecOk(Unwrap(cmsg), <<>>)

\* C14, amended: an HPKE identifier v decodes from its encoding to itself
\* unless v is NotImplemented(x) with x the code of a named variant, which
\* decodes to that variant; an HpkeConfig decodes from its encoding to the
\* HpkeConfig whose identifiers are the decoded ones, the other fields kept.
C14_HpkeRoundTripCanonical ==
    (cpc \in {"decoded", "reencoded"} /\ IsSome(cmsg)
     /\ cty \in {"HpkeKemId", "HpkeKdfId", "HpkeAeadId", "HpkeConfig"}) =>
        LET kem(v) == IF v = [var |-> "NotImplemented", x |-> 16]
                      THEN [var |-> "P256HkdfSha256"]
                      ELSE IF v = [var |-> "NotImplemented", x |-> 32]
                      THEN [var |-> "X25519HkdfSha256"] ELSE v
            kdf(v) == IF v = [var |-> "NotImplemented", x |-> 1]
                      THEN [var |-> "HkdfSha256"] ELSE v
            aead(v) == IF v = [var |-> "NotImplemented", x |-> 1]
                       THEN [var |-> "Aes128Gcm"] ELSE v
            m == Unwrap(cmsg)
            expected == CASE cty = "HpkeKemId" -> kem(m)
                          [] cty = "HpkeKdfId" -> kdf(m)
                          [] cty = "HpkeAeadId" -> aead(m)
                          [] cty = "HpkeConfig" ->
                                 [m EXCEPT !.kem_id = kem(@), !.kdf_id = kdf(@),
                                           !.aead_id = aead(@)]
        IN  cres = DecOk(expected, <<>>)

\* an HpkeConfig with unknown KEM, KDF and AEAD codes and a public key came
\* back from its encoding
C14_Witness ==
    /\ cpc = "decoded"
    /\ cty = "HpkeConfig"
    /\ IsSome(cmsg)
    /\ Unwrap(cmsg).kem_id = [var |-> "NotImplemented", x |-> 65535]
    /\ Unwrap(cmsg).kdf_id = [var |-> "NotImplemented", x |-> 2]
    /\ Unwrap(cmsg).aead_id = [var |-> "NotImplemented", x |-> 3]
    /\ Len(Unwrap(cmsg).public_key) > 0
    /\ cres = DecOk(Unwrap(cmsg), <<>>)

\* C15: BatchCollected, ReportReplayed, ReportDropped, HpkeUnknownConfigId,
\* HpkeDecryptError, VdafPrepError, BatchSaturated encode to the single bytes
\* 0x00..0x06 in that order, each of those bytes decodes to its variant, and
\* a byte of 0x07 or more fails to decode with UnexpectedValue.
C15_TransitionFailureCodes ==
    LET names == <<"BatchCollected", "ReportReplayed", "ReportDropped",
                   "HpkeUnknownConfigId", "HpkeDecryptError", "VdafPrepError",
                   "BatchSaturated">>
    IN  cty = "TransitionFailure" =>
          /\ IsSome(cmsg) => \E b \in 0..6 : Unwrap(cmsg) = names[b + 1] /\ cwire = <<b>>
          /\ (cpc \in {"decoded", "reencoded"} /\ Len(cwire) = 1) =>
                 cres = IF cwire[1] <= 6 THEN DecOk(names[cwire[1] + 1], <<>>)
                        ELSE DecErr("UnexpectedValue")

\* the byte 0x07 arrived and was refused
C15_Witness ==
    /\ cpc = "decoded"
    /\ cty = "TransitionFailure"
    /\ cwire = <<7>>
    /\ cres = DecErr("UnexpectedValue")

\* C16: a TransitionVar is encoded as one tag byte and its body: 0 and a
\* u32-length-prefixed byte string for Continued, 1 and nothing for Finished,
\* 2 and a TransitionFailure byte for Failed; the encoding decodes to the
\* value, and any other tag fails to decode with UnexpectedValue.
C16_TransitionVarLayout ==
    cty = "TransitionVar" =>
      /\ IsSome(cmsg) =>
             LET v == Unwrap(cmsg)
             IN  /\ v.var = "Continued" =>
                        cwire = <<0, 0, 0, 0, Len(v.vdaf_message)>> \o v.vdaf_message
                 /\ v.var = "Finished" => cwire = <<1>>
                 /\ v.var = "Failed" =>
                        /\ Len(cwire) = 2 /\ cwire[1] = 2
                        /\ get_decoded("TransitionFailure", "", <<cwire[2]>>)
                               = DecOk(v.failure, <<>>)
                 /\ cpc \in {"decoded", "reencoded"} => cres = DecOk(v, <<>>)
      /\ (cpc \in {"decoded", "reencoded"} /\ Len(cwire) >= 1 /\ cwire[1] > 2) =>
             cres = DecErr("UnexpectedValue")

\* the tag 3 arrived in front of a well-formed body and was refused
C16_Witness ==
    /\ cpc = "decoded"
    /\ cty = "TransitionVar"
    /\ cwire = <<3, 0, 0, 0, 1, 9>>
    /\ cres = DecErr("UnexpectedValue")

\* C17: a BatchParameter and a Query are encoded as a 16-bit big-endian tag,
\* 0x0001 for TimeInterval and 0x0002 for FixedSize, and the body of the
\* variant (start and duration of the interval of a TimeInterval query, the
\* 32-byte batch_id of FixedSize); any other tag fails to decode with
\* UnexpectedValue.
C17_QueryTypeTag ==
    cty \in {"BatchParameter", "Query"} =>
      /\ IsSome(cmsg) =>
             LET v == Unwrap(cmsg)
             IN  /\ v.var = "TimeInterval" =>
                        cwire = <<0, 1>> \o (IF cty = "Query"
                                             THEN u64_encode(v.batch_interval.start)
                                                  \o u64_encode(v.batch_interval.duration)
                                             ELSE <<>>)
                 /\ v.var = "FixedSize" =>
                        cwire = <<0, 2>> \o v.batch_id /\ Len(v.batch_id) = 32
                 /\ cpc \in {"decoded", "reencoded"} => cres = DecOk(v, <<>>)
      /\ (cpc \in {"decoded", "reencoded"} /\ Len(cwire) >= 2
          /\ <<cwire[1], cwire[2]>> \notin {<<0, 1>>, <<0, 2>>}) =>
             cres = DecErr("UnexpectedValue")

\* the tag 0x0100 arrived in front of an interval as a Query and was refused
C17_Witness ==
    /\ cpc = "decoded"
    /\ cty = "Query"
    /\ Len(cwire) = 18
    /\ cwire[1] = 1 /\ cwire[2] = 0
    /\ cres = DecErr("UnexpectedValue")

\* C18: the encoding of a TaskConfig holds, after task_info, under Draft02
\* one u16-length-prefixed list of the two u16-length-prefixed URLs and under
\* Draft07 the two u16-length-prefixed URLs with no outer prefix; the Draft02
\* decoder refuses a list of zero, one or three URLs with UnexpectedValue;
\* and in both versions the encoding of a TaskConfig decodes to it.
C18_TaskConfigUrls ==
    cty = "TaskConfig" =>
      /\ IsSome(cmsg) =>
             LET t == Unwrap(cmsg)
                 l == t.leader_url.bytes
                 h == t.helper_url.bytes
                 pair == <<0, Len(l)>> \o l \o <<0, Len(h)>> \o h
                 urls == IF cver = "Draft02" THEN <<0, Len(pair)>> \o pair ELSE pair
                 from == 1 + Len(t.task_info)
             IN  /\ SubSeq(cwire, from + 1, from + Len(urls)) = urls
                 /\ cpc \in {"decoded", "reencoded"} => cres = DecOk(t, <<>>)
      /\ (cpc \in {"decoded", "reencoded"} /\ cver = "Draft02" /\ ~IsSome(cmsg)) =>
             \A n \in {0, 1, 3} :
                 LET list == [i \in 1..(3 * n) |-> <<0, 1, 104>>[((i - 1) % 3) + 1]]
                     front == <<1, 9, 0, 3 * n>> \o list
                 IN  (Len(cwire) > Len(front) /\ SubSeq(cwire, 1, Len(front)) = front)
                         => cres = DecErr("UnexpectedValue")

\* a TaskConfig with implemented variants was encoded and decoded under Draft07
C18_Witness ==
    /\ cpc = "decoded"
    /\ cty = "TaskConfig"
    /\ cver = "Draft07"
    /\ IsSome(cmsg)
    /\ Unwrap(cmsg).query_config.var.var = "TimeInterval"

\* C19: for every interval and every task configuration, is_valid_for
\* returns, and returns true exactly when start and duration are multiples
\* of the task's time precision and duration is at least the time precision.
C19_IsValidFor ==
    iv.pc = "done" =>
        LET time_precision == iv.task_config.min_batch_duration
        IN  /\ ~iv.result.panic
            /\ iv.result.value <=> /\ iv.self.start % time_precision = 0
                                    /\ iv.self.duration % time_precision = 0
                                    /\ iv.self.duration >= time_precision

\* C20: a u16- or u32-length-prefixed byte string is encoded as its byte
\* length in big-endian on two, resp. four, bytes and the payload; when the
\* length is above 2^16-1, resp. 2^32-1, the encoder fails and emits nothing.
C20_LengthPrefixNeverWraps ==
    lp.pc = "done" =>
        LET len == lp.len
            fits == /\ len[1] = 0 /\ len[2] = 0
                    /\ lp.width = 2 => len[3] = 0
            low == <<len[4] \div 256, len[4] % 256>>
            big_endian == IF lp.width = 2 THEN low
                          ELSE <<len[3] \div 256, len[3] % 256>> \o low
        IN  /\ fits => ~lp.panic /\ lp.bytes = big_endian \o lp.data
            /\ ~fits => lp.panic /\ lp.bytes = <<>>

\* a payload of 65536 bytes was handed to the u16 encoder, which failed
C20_Witness ==
    /\ lp.pc = "done"
    /\ lp.width = 2
    /\ lp.len = <<0, 0, 1, 0>>
    /\ lp.panic

\* C21: truncation is always detected.  For every message type and every
\* message m whose encoding is to decode (any message of messages.rs; a
\* taskprov message with implemented variants, in either version), decoding
\* the encoding of m with one or more bytes cut off its end fails with an error
\* of reading past the end of the buffer, Io or LengthPrefixTooBig, and
\* returns no value.
C21_TruncationDetected ==
    LET ImplQ(q) == q.var.var \in {"TimeInterval", "FixedSize"}
        ImplD(d) == d.var = "None"
        ImplV(v) == v.var = "Prio2"
        Valid(ty, m) ==
            CASE ty = "QueryConfig" -> ImplQ(m)
              [] ty = "DpConfig" -> ImplD(m)
              [] ty = "VdafTypeVar" -> ImplV(m)
              [] ty = "VdafConfig" -> ImplD(m.dp_config) /\ ImplV(m.var)
              [] ty = "TaskConfig" ->
                     /\ ImplQ(m.query_config)
                     /\ ImplD(m.vdaf_config.dp_config)
                     /\ ImplV(m.vdaf_config.var)
              [] OTHER -> TRUE
    IN  ( /\ cpc \in {"decoded", "reencoded"}
          /\ IsSome(ctrunc)
          /\ Valid(cty, Unwrap(ctrunc)) )
        => /\ ~IsOk(cres)
           /\ cres.err \in {"Io", "LengthPrefixTooBig"}

\* C22: constant_time_eq returns true exactly when the two slices have the
\* same length and the same byte at every position, and on slices of equal
\* length the loop runs once per position wherever the first difference is.
C22_ConstantTimeEq ==
    ct.pc = "done" =>
        /\ ct.result.value <=> ct.left = ct.right
        /\ Len(ct.left) = Len(ct.right) => ct.result.compared = Len(ct.left)

\* two slices of the same length that differ in their first byte only were
\* compared to the end
C22_Witness ==
    /\ ct.pc = "done"
    /\ Len(ct.left) = MaxCmpLen
    /\ Len(ct.right) = MaxCmpLen
    /\ ct.left[1] # ct.right[1]
    /\ \A i \in 2..MaxCmpLen : ct.left[i] = ct.right[i]
    /\ ~ct.result.value
    /\ ct.result.compared = MaxCmpLen

\* C23: unwrap_interval does not panic: on a TimeInterval query it returns
\* the batch interval of the query, on a FixedSize query it returns an error.
C23_UnwrapIntervalNoPanic ==
    uq.pc = "done" =>
        /\ ~uq.result.panic
        /\ uq.self.var = "TimeInterval" => uq.result.value = Some(uq.self.batch_interval)

\* C24: the encoding of a Report is the 32 bytes of task_id, the time on 8
\* bytes big-endian, the 16 bytes of the nonce, the extensions behind a u16
\* byte length, public_share behind a u32 byte length and the encrypted
\* input shares behind a u32 byte length; it decodes to the Report.
C24_ReportLayout ==
    (cty = "Report" /\ IsSome(cmsg)) =>
        LET r == Unwrap(cmsg)
            m == r.metadata
            be16(n) == <<n \div 256, n % 256>>
            be32(n) == <<0, 0>> \o be16(n)
            time == [i \in 1..8 |-> IF i % 2 = 1 THEN m.time[(i + 1) \div 2] \div 256
                                    ELSE m.time[(i + 1) \div 2] % 256]
            ext == Concat([i \in DOMAIN m.extensions |->
                              be16(m.extensions[i].typ) \o be16(Len(m.extensions[i].payload))
                              \o m.extensions[i].payload])
            shares == Concat([i \in DOMAIN r.encrypted_input_shares |->
                                 LET c == r.encrypted_input_shares[i]
                                 IN  <<c.config_id>> \o be16(Len(c.enc)) \o c.enc
                                     \o be32(Len(c.payload)) \o c.payload])
        IN  /\ Len(r.task_id) = 32 /\ Len(m.nonce) = 16
            /\ SubSeq(cwire, 1, 32) = r.task_id
            /\ SubSeq(cwire, 33, 40) = time
            /\ SubSeq(cwire, 41, 56) = m.nonce
            /\ cwire = r.task_id \o time \o m.nonce \o be16(Len(ext)) \o ext
                       \o be32(Len(r.public_share)) \o r.public_share
                       \o be32(Len(shares)) \o shares
            /\ cpc \in {"decoded", "reencoded"} => cres = DecOk(r, <<>>)

\* a Report with an extension, a public share and an encrypted input share,
\* whose task_id, time and nonce differ in their bytes, was encoded and decoded
C24_Witness ==
    /\ cpc = "decoded"
    /\ cty = "Report"
    /\ IsSome(cmsg)
    /\ Len(Unwrap(cmsg).metadata.extensions) > 0
    /\ Len(Unwrap(cmsg).public_share) > 0
    /\ Len(Unwrap(cmsg).encrypted_input_shares) > 0
    /\ Unwrap(cmsg).task_id[1] # Unwrap(cmsg).metadata.nonce[1]
    /\ SubSeq(cwire, 33, 40) # SubSeq(cwire, 41, 48)
    /\ IsOk(cres)

\* C25: a command with role Leader and no collector token is refused with
\* "missing collector authentication token", a command with role Helper and
\* a collector token with "unexpected collector authentication token"; a
\* CollectorBearerToken is written only by a command of role Leader, under
\* its task_id; and no TaskConfig is stored for a command refused in this way.
C25_RoleCollectorTokenRule ==
    /\ [](\A c \in Callers :
             call[c].pc = "done" =>
                 LET cmd == call[c].cmd
                     res == call[c].result
                     reached == /\ ParseCommand(cmd) = "ok"
                                /\ call[c].first
                                /\ res # ErrStorage
                     missing == cmd.role = "Leader"
                                /\ ~IsSome(cmd.collector_authentication_token)
                     unexpected == cmd.role = "Helper"
                                   /\ IsSome(cmd.collector_authentication_token)
                 IN  /\ (missing \/ unexpected) => res # "Ok"
                     /\ (missing /\ reached) =>
                            res = "missing collector authentication token"
                     /\ (unexpected /\ reached) =>
                            res = "unexpected collector authentication token"
                     /\ res = "missing collector authentication token" => missing
                     /\ res = "unexpected collector authentication token" => unexpected
                     /\ res \in {"missing collector authentication token",
                                 "unexpected collector authentication token"} =>
                            ~IsSome(kvTaskConfig[cmd.task_id]))
    /\ [][\A t \in TaskIds :
             kvCollectorBearerToken'[t] # kvCollectorBearerToken[t] =>
                 \E c \in Callers :
                     /\ call[c].pc = "collector"
                     /\ call[c].cmd.task_id = t
                     /\ call[c].cmd.role = "Leader"
                     /\ kvCollectorBearerToken[t] = NoneOpt
                     /\ kvCollectorBearerToken'[t] = call[c].cmd.collector_authentication_token]_vars

\* a Helper command with a collector token was refused after its leader
\* token was written, and nothing else was
C25_Witness ==
    \E c \in Callers :
        /\ call[c].pc = "done"
        /\ call[c].cmd.role = "Helper"
        /\ call[c].result = "unexpected collector authentication token"
        /\ IsSome(kvLeaderBearerToken[call[c].cmd.task_id])
        /\ ~IsSome(kvCollectorBearerToken[call[c].cmd.task_id])
        /\ ~IsSome(kvTaskConfig[call[c].cmd.task_id])

\* C26: query_type 1 without max_batch_size gives TimeInterval, query_type 1
\* with one is refused with "unexpected max batch size", query_type 2 gives
\* FixedSize with the given, possibly absent, max_batch_size, and any other
\* query_type is refused with "unrecognized query type"; no TaskConfig is
\* stored for a command refused in this way.
C26_QueryConfigMapping ==
    \A c \in Callers :
        call[c].pc = "done" =>
            LET cmd == call[c].cmd
                res == call[c].result
                stored == kvTaskConfig[cmd.task_id]
                reached == /\ ParseCommand(cmd) = "ok"
                           /\ call[c].first
                           /\ res # ErrStorage
                           /\ (cmd.role = "Leader") <=> IsSome(cmd.collector_authentication_token)
            IN  /\ res = "Ok" =>
                       /\ IsSome(stored)
                       /\ cmd.query_type \in {1, 2}
                       /\ cmd.query_type = 1 =>
                              /\ ~IsSome(cmd.max_batch_size)
                              /\ Unwrap(stored).query = <<"TimeInterval">>
                       /\ cmd.query_type = 2 =>
                              Unwrap(stored).query = <<"FixedSize", cmd.max_batch_size>>
                /\ (reached /\ cmd.query_type = 1 /\ ~IsSome(cmd.max_batch_size)) => res = "Ok"
                /\ (reached /\ cmd.query_type = 2) => res = "Ok"
                /\ (reached /\ cmd.query_type = 1 /\ IsSome(cmd.max_batch_size)) =>
                       res = "unexpected max batch size"
                /\ (reached /\ cmd.query_type \notin {1, 2}) => res = "unrecognized query type"
                /\ res \in {"unexpected max batch size", "unrecognized query type"} =>
                       ~IsSome(stored)

\* query_type 2 without a maximum batch size was stored as FixedSize
C26_Witness ==
    \E c \in Callers :
        /\ call[c].pc = "done"
        /\ call[c].result = "Ok"
        /\ call[c].cmd.query_type = 2
        /\ ~IsSome(call[c].cmd.max_batch_size)
        /\ Unwrap(kvTaskConfig[call[c].cmd.task_id]).query = <<"FixedSize", NoneOpt>>

\* C27: a failed internal_add_task leaves the store unchanged: when the
\* first call for a task_id returns an error, no LeaderBearerToken,
\* CollectorBearerToken or TaskConfig is stored under that task_id, so that a
\* corrected command with the same task_id can succeed.
C27_FailedCallWritesNothing ==
    \A c \in Callers :
        (call[c].pc = "done" /\ call[c].first /\ call[c].result # "Ok") =>
            LET t == call[c].cmd.task_id
            IN  /\ ~IsSome(kvLeaderBearerToken[t])
                /\ ~IsSome(kvCollectorBearerToken[t])
                /\ ~IsSome(kvTaskConfig[t])

\* C28: with no purge, a TaskConfig is stored under a task_id only when a
\* LeaderBearerToken is, the call that stores the TaskConfig with role Leader
\* finds the CollectorBearerToken stored, and when a call has returned Ok the
\* TaskConfig, the LeaderBearerToken and, for role Leader, the
\* CollectorBearerToken are stored under its task_id.
C28_TokensBeforeConfig ==
    /\ [](\A t \in TaskIds : IsSome(kvTaskConfig[t]) => IsSome(kvLeaderBearerToken[t]))
    /\ [](\A c \in Callers :
             (call[c].pc = "done" /\ call[c].result = "Ok") =>
                 LET t == call[c].cmd.task_id
                 IN  /\ IsSome(kvTaskConfig[t])
                     /\ IsSome(kvLeaderBearerToken[t])
                     /\ call[c].cmd.role = "Leader" => IsSome(kvCollectorBearerToken[t]))
    /\ [][\A t \in TaskIds :
             kvTaskConfig'[t] # kvTaskConfig[t] =>
                 \E c \in Callers :
                     /\ call[c].pc = "config"
                     /\ call[c].cmd.task_id = t
                     /\ IsSome(kvLeaderBearerToken[t])
                     /\ call[c].cmd.role = "Leader" => IsSome(kvCollectorBearerToken[t])
                     /\ UNCHANGED <<kvLeaderBearerToken, kvCollectorBearerToken>>]_vars

\* two overlapping calls for one task: the Leader's call returned Ok with the
\* three keys stored while the other was refused
C28_Witness ==
    \E c, d \in Callers :
        /\ c # d
        /\ call[c].pc = "done" /\ call[c].result = "Ok" /\ call[c].cmd.role = "Leader"
        /\ call[d].pc = "done" /\ call[d].result # "Ok"
        /\ call[d].cmd.task_id = call[c].cmd.task_id
        /\ IsSome(kvTaskConfig[call[c].cmd.task_id])
        /\ IsSome(kvLeaderBearerToken[call[c].cmd.task_id])
        /\ IsSome(kvCollectorBearerToken[call[c].cmd.task_id])

\* C29: no lost update in internal_add_hpke_config: when two calls for one
\* version, served concurrently, have both returned Ok, with distinct config
\* ids the stored set of the version holds both receivers, and the two never
\* carry the same config id.
C29_NoLostUpdate ==
    \A c, d \in Callers :
        ( /\ c # d
          /\ hp[c].pc = "done" /\ hp[c].result = "Ok"
          /\ hp[d].pc = "done" /\ hp[d].result = "Ok"
          /\ hp[c].version = hp[d].version )
        => LET stored == Unwrap(kvHpkeReceiverConfigSet[hp[c].version])
           IN  /\ hp[c].new_receiver.config.id # hp[d].new_receiver.config.id
               /\ \E i \in DOMAIN stored : stored[i] = hp[c].new_receiver
               /\ \E i \in DOMAIN stored : stored[i] = hp[d].new_receiver


\* C30: internal_delete_all is atomic with respect to concurrent requests and
\* failures: under every interleaving with read-through gets, when it returns
\* Ok the cache holds no value for a key that the purge removed from the
\* store; and when the purge request fails, the error is not returned with
\* the leader state or the cache left cleared of what they held while the
\* store still holds its keys.
C30_DeleteAllAtomic ==
    [][(da.pc = "purge" /\ da'.pc = "done") =>
          IF da'.result = "Ok"
          THEN /\ (kvGlobalOverride # NoneOpt /\ kvGlobalOverride' = NoneOpt)
                      => cacheGlobalOverride'.state # "found"
               /\ \A v \in DapVersions :
                      (kvHpkeReceiverConfigSet[v] # NoneOpt /\ kvHpkeReceiverConfigSet'[v] = NoneOpt)
                          => cacheHpkeReceiverConfigSet'[v].state # "found"
          ELSE LET storeHoldsKeys ==
                       \/ kvGlobalOverride' # NoneOpt
                       \/ \E v \in DapVersions : kvHpkeReceiverConfigSet'[v] # NoneOpt
                       \/ \E t \in TaskIds : \/ kvLeaderBearerToken'[t] # NoneOpt
                                              \/ kvCollectorBearerToken'[t] # NoneOpt
                                              \/ kvTaskConfig'[t] # NoneOpt
                   cacheCleared ==
                       /\ cacheGlobalOverride'.state # "found"
                       /\ \A v \in DapVersions : cacheHpkeReceiverConfigSet'[v].state # "found"
               IN  storeHoldsKeys =>
                       /\ ~(da.dropped.leader /\ test_leader_state' = {})
                       /\ ~(da.dropped.cache /\ cacheCleared)]_vars

=========================================================================
